---- MODULE Spec2Model ----
(***************************************************************************)
(* A model of tracing-subscriber-serde.                                    *)
(*                                                                         *)
(*   SpecNB     the NonBlocking writer (src/src/writer/nonblocking.rs):    *)
(*              producers, the bounded channel, the FlushGuard and the     *)
(*              writer thread over a TestWriter-like byte writer.          *)
(*   FairSpecNB SpecNB with the fairness of running threads.               *)
(*   SpecDrops  the scenario of tests::drops_logs_when_full.               *)
(*   SpecLayer  the SerdeLayer callbacks (src/src/subscriber/mod.rs) over  *)
(*              the host registry's span tree and per-thread span stack.   *)
(***************************************************************************)
EXTENDS Integers, Sequences, FiniteSets, TLC

\* ------------------------------------------------------------------ bounds
\* number of write calls the first producer thread makes (the second thread,
\* holding a clone of the NonBlocking writer, makes one)
NWrites == 2
\* largest channel capacity (buf_size) tried
MaxCap == 2
\* the TestWriter::write_size values tried (0 stands for None)
WriteSizes == {0, 1}
\* the TestWriter::interrupts periods tried (0 stands for None)
InterruptPeriods == {0, 2}

VARIABLES
  \* ---- NonBlocking writer
  lossy,          \* NonBlocking::lossy
  cap,            \* capacity of the flume::bounded channel
  chan,           \* messages in the channel, oldest first
  pnext,          \* per producer: index of its next write call
  ppc,            \* per producer: "run" | "done" | "panicked"
  calls,          \* payloads of the write calls that returned Ok, in call order
  accepted,       \* payloads that entered the channel, in channel order
  gpc,            \* FlushGuard: "held" | "dropping" | "sent" | "joined" | "panicked"
  sdAccepted,     \* Len(accepted) when the guard sent Shutdown (-1 before)
  rcvAccepted,    \* Len(accepted) when the worker received Shutdown (-1 before)
  wpc,            \* writer thread: "recv" | "write" | "flush" | "done" | "dead"
  wmode,          \* writer thread: "run" (WriterThread::run loop) | "drain"
  cur,            \* payload the writer thread is handling
  written,        \* payloads handed to writer.write, in order
  out,            \* TestWriter::buffer
  write_size,     \* TestWriter::write_size (0 = None)
  interrupts,     \* TestWriter::interrupts (0 = None)
  write_counter,  \* TestWriter::write_counter
  flushes,        \* number of TestWriter::flush calls
  wlog,           \* order of the calls on the underlying writer: "w" | "f"
  wait,           \* TestWriter::wait is Some (the writer stalls until signalled)
  signalled,      \* the stalled writer has received a signal it has not used yet
  tpc,            \* position of the test thread in drops_logs_when_full
  firstRecv       \* number of writes the test had made at the worker's first recv

nbVars == <<lossy, cap, chan, pnext, ppc, calls, accepted, gpc, sdAccepted,
            rcvAccepted, wpc, wmode, cur,
            written, out, write_size, interrupts, write_counter, flushes, wlog,
            wait, signalled, tpc, firstRecv>>

VARIABLES
  \* ---- SerdeLayer over the host registry
  layers,         \* the SerdeLayerBuilder configurations, innermost layer first
  nspans,         \* number of spans the registry has created (ids 1..nspans)
  parent,         \* registry: span id -> parent id (0: a root span)
  live,           \* registry: ids of the spans that are not closed
  handle,         \* ids of the spans the program holds a Span handle of
  stack,          \* registry: the thread's SpanStack of [id, duplicate], oldest first
  everEntered,    \* ids of the spans that were entered at least once
  ext_spans,      \* span extensions: id -> the Spans fragment (<<>>: none)
  ext_timer,      \* span extensions: id -> a SpanTimer is stored
  emitted,        \* records handed to the writers by the last host operation
  ncalls          \* callback kind -> number of callbacks the last host operation
                  \* made on each layer

layerVars == <<layers, nspans, parent, live, handle, stack, everEntered,
               ext_spans, ext_timer, emitted, ncalls>>

VARIABLES
  \* ---- span timing
  now,            \* Instant::now(), in nanoseconds since the layer was built
  timers,         \* span extensions: id -> the SpanTimer's busy, idle, last_update
  log,            \* the records the layer has emitted, oldest first
  step,           \* number of operations of the timed scenario that are done
  \* ---- formats and the consumer
  format,         \* the format driver: "Json" | "MessagePack"
  side,           \* whose Serialize wrote the stream: "layer" | "owned"
  events,         \* the events serialized into the buffer, in order
  buffer,         \* the serialized stream: the values and, for Json, the newlines
  rpos,           \* number of elements of the buffer the stream has consumed
  failed,         \* serde_json's StreamDeserializer has returned an error
  yielded,        \* what the calls of Iterator::next returned, in order
  \* ---- writers and their decorators
  wkind,          \* the writer of the layer: "NonBlocking" | "Sync" (Stdout,
                  \* Stderr, Mutex<W>)
  decorators,     \* the decorators around the writer, outermost first:
                  \* "Warn" (WarnOnError) | "Panic" (PanicOnError)
  outcomes        \* one entry per call of write on the decorated writer

fmtVars == <<format, side, events, buffer, rpos, failed, yielded>>

emitVars == <<wkind, decorators, outcomes>>

VARIABLES
  \* ---- a direct writer shared by threads
  mutex,          \* the thread that holds the lock of the writer, 0 for none
  progress,       \* per thread: the record it is at and the chunks of it written
  sink            \* what the wrapped writer received: <<thread, record, chunk>>

syncVars == <<mutex, progress, sink>>

VARIABLES
  \* ---- IterFile::iter_file
  tryopen,        \* the TryOpenStream: none before iter_file, then OpenError
                  \* with the error not yet taken, or Success
  outer           \* what the calls of TryOpenStream::next returned, in order

openVars == <<tryopen, outer>>

VARIABLES
  \* ---- functions checked on their own
  args,           \* the arguments of the call
  result          \* what the call returned or stored, <<>> before the call

pureVars == <<args, result>>

VARIABLES
  \* ---- the ring-buffer writer of src/src/nonblocking.rs
  ringbuf,        \* the rtrb ring: capacity, slots, read position, readable count
  wh,             \* the thread that owns the WriterHandle: where it is in write
                  \* or drop, the rest of the payload, avail
  wt,             \* the WriterThread: where it is in run, the message it
                  \* handles, min_write_size
  chans,          \* data_available (queue, senders alive) and space_available
  tw              \* the TestWriter: buffer, write_size, interrupts, write_counter

ringVars == <<ringbuf, wh, wt, chans, tw>>

extVars == <<syncVars, openVars, pureVars, ringVars>>

auxVars == <<now, timers, log, step, fmtVars, emitVars, extVars>>

vars == <<nbVars, layerVars, auxVars>>

\* ------------------------------------------------------- pure helpers
RECURSIVE Concat(_)
Concat(ss) == IF ss = <<>> THEN <<>> ELSE Head(ss) \o Concat(Tail(ss))

RECURSIVE IsSubseq(_, _)
IsSubseq(s, t) ==
  IF s = <<>> THEN TRUE
  ELSE IF t = <<>> THEN FALSE
  ELSE IF Head(s) = Head(t) THEN IsSubseq(Tail(s), Tail(t))
  ELSE IsSubseq(s, Tail(t))

IsPrefix(s, t) == Len(s) <= Len(t) /\ SubSeq(t, 1, Len(s)) = s

Min(a, b) == IF a <= b THEN a ELSE b

\* ------------------------------------------------------- format driver
\* serde_json rendering of an unsigned integer: its decimal digits (ASCII)
RECURSIVE Digits(_)
Digits(n) == IF n < 10 THEN <<48 + n>> ELSE Digits(n \div 10) \o <<48 + (n % 10)>>

\* Json::serialize: serde_json::to_writer(&mut buf, &event) then "\n".
\* A message is [t |-> "int", v |-> n] or [t |-> "str", v |-> <<char codes>>].
SerializeJson(m) ==
  (IF m.t = "int" THEN Digits(m.v) ELSE <<34>> \o m.v \o <<34>>) \o <<10>>

IntMsg(n) == [t |-> "int", v |-> n]

\* ------------------------------------------------------- channel
Record(data) == [type |-> "Record", data |-> data]
Shutdown == [type |-> "Shutdown"]

\* the Receiver lives in the WriterThread, which the thread closure owns: it is
\* dropped when the thread function returns or unwinds
ReceiverAlive == wpc \notin {"done", "dead"}

RecordsOf(q) == SelectSeq(q, LAMBDA m : m.type = "Record")
DataOf(q) == [i \in 1..Len(q) |-> q[i].data]

\* a channel that holds one message more than its capacity
SendOutcomeOffByOne(isLossy) ==
  IF ~ReceiverAlive THEN "panic"
  ELSE IF Len(chan) > cap THEN (IF isLossy THEN "full" ELSE "block")
  ELSE "sent"

\* a write path that waits for a free slot in lossy mode too
SendOutcomeAlwaysBlocking(isLossy) ==
  IF ~ReceiverAlive THEN "panic"
  ELSE IF Len(chan) >= cap THEN "block"
  ELSE "sent"

\* a channel that looks at its capacity before it looks for its receiver
SendOutcomeFullBeforeDisconnected(isLossy) ==
  IF Len(chan) >= cap THEN (IF isLossy THEN "full" ELSE "block")
  ELSE IF ~ReceiverAlive THEN "panic"
  ELSE "sent"

\* NonBlocking::write: what the send does with the serialized record.
\*   "panic"  the channel is disconnected (PANIC_MSG_DEAD_WRITER)
\*   "full"   lossy: try_send found the channel full, the record is dropped
\*   "block"  blocking: send waits for a free slot
\*   "sent"   the record entered the channel
SendOutcome(isLossy) ==
  IF ~ReceiverAlive THEN "panic"
  ELSE IF Len(chan) >= cap THEN (IF isLossy THEN "full" ELSE "block")
  ELSE "sent"

\* ------------------------------------------------------- underlying writer
\* TestWriter::write: the number of bytes accepted, or -1 for Err(Interrupted)
WriterAccepts(data) ==
  IF interrupts # 0 /\ (write_counter + 1) % interrupts = 0 THEN -1
  ELSE IF write_size = 0 THEN Len(data) ELSE Min(write_size, Len(data))

\* a writer thread that writes nothing more once a write has failed
HandleRecordBytesNoneAfterError(data) ==
  IF interrupts # 0 /\ write_counter + 1 >= interrupts THEN <<>>
  ELSE IF WriterAccepts(data) <= 0 THEN <<>>
  ELSE SubSeq(data, 1, WriterAccepts(data))

\* WriterThread::handle_message on Record(data): the bytes that reach the buffer
HandleRecordBytes(data) ==
  LET n == WriterAccepts(data) IN IF n <= 0 THEN <<>> ELSE SubSeq(data, 1, n)

\* ------------------------------------------------------- initial states
Producers == {1, 2}

\* number of write calls producer p makes
WritesOf(p) == IF p = 1 THEN NWrites ELSE 1

\* the integer the i-th write call of producer p serializes
MsgOf(p, i) == (p - 1) * NWrites + (i - 1)

Kinds == {"Event", "SpanCreate", "SpanEnter", "SpanExit", "SpanClose"}

\* no direct writer is in use
SyncIdle ==
  /\ mutex = 0
  /\ progress = <<>>
  /\ sink = <<>>

\* iter_file has not been called
OpenIdle ==
  /\ tryopen = [state |-> "none", err |-> <<>>]
  /\ outer = <<>>

\* no function is checked on its own
PureIdle ==
  /\ args = <<>>
  /\ result = <<>>

\* no ring-buffer writer is in use
RingIdle ==
  /\ ringbuf = <<>>
  /\ wh = <<>>
  /\ wt = <<>>
  /\ chans = <<>>
  /\ tw = <<>>

ExtIdle == SyncIdle /\ OpenIdle /\ PureIdle /\ RingIdle

\* the variables of timing, formats and decorators while not exercised
CoreIdle ==
  /\ now = 0
  /\ timers = <<>>
  /\ log = <<>>
  /\ step = 0
  /\ format = "Json"
  /\ side = "layer"
  /\ events = <<>>
  /\ buffer = <<>>
  /\ rpos = 0
  /\ failed = FALSE
  /\ yielded = <<>>
  /\ wkind = "NonBlocking"
  /\ decorators = <<>>
  /\ outcomes = <<>>

\* the remaining variables while they are not exercised
AuxIdle == CoreIdle /\ ExtIdle

\* the layer part of the state while only the writer is exercised
LayerIdle ==
  /\ layers = <<>>
  /\ nspans = 0
  /\ parent = <<>>
  /\ live = {}
  /\ handle = {}
  /\ stack = <<>>
  /\ everEntered = {}
  /\ ext_spans = <<>>
  /\ ext_timer = <<>>
  /\ emitted = <<>>
  /\ ncalls = [k \in Kinds |-> 0]

\* WriterThread::spawn and NonBlockingBuilder::finish: an empty bounded channel,
\* the thread about to call run(), the guard held
Spawned ==
  /\ chan = <<>>
  /\ gpc = "held"
  /\ sdAccepted = -1
  /\ rcvAccepted = -1
  /\ wpc = "recv"
  /\ wmode = "run"
  /\ cur = <<>>
  /\ written = <<>>
  /\ out = <<>>
  /\ write_counter = 0
  /\ flushes = 0
  /\ wlog = <<>>
  /\ calls = <<>>
  /\ accepted = <<>>
  /\ signalled = FALSE
  /\ firstRecv = -1

InitNB ==
  /\ lossy \in BOOLEAN
  /\ cap \in 1..MaxCap
  /\ write_size \in WriteSizes
  /\ interrupts \in InterruptPeriods
  /\ wait = FALSE
  /\ pnext = [p \in Producers |-> 1]
  /\ ppc = [p \in Producers |-> "run"]
  /\ tpc = 0
  /\ Spawned
  /\ LayerIdle
  /\ AuxIdle

\* ------------------------------------------------------- NonBlocking::write
\* One write call of a producer with the message m: serialize into a fresh
\* buffer, then try_send (lossy) or send (blocking). The call is one step: a
\* blocked send is a step that is not enabled.
NBWrite(m) ==
  LET buf == SerializeJson(m)
      o == SendOutcome(lossy)
  IN /\ o # "block"
     /\ chan' = IF o = "sent" THEN Append(chan, Record(buf)) ELSE chan
     /\ accepted' = IF o = "sent" THEN Append(accepted, buf) ELSE accepted
     /\ calls' = IF o = "panic" THEN calls ELSE Append(calls, buf)

ProducerWrite(p) ==
  /\ ppc[p] = "run"
  /\ NBWrite(IntMsg(MsgOf(p, pnext[p])))
  /\ IF SendOutcome(lossy) = "panic"
     THEN /\ ppc' = [ppc EXCEPT ![p] = "panicked"]
          /\ pnext' = pnext
     ELSE /\ ppc' = [ppc EXCEPT ![p] = IF pnext[p] = WritesOf(p) THEN "done" ELSE "run"]
          /\ pnext' = [pnext EXCEPT ![p] = @ + 1]
  /\ UNCHANGED <<lossy, cap, gpc, sdAccepted, rcvAccepted, wpc, wmode, cur, written,
                 out, write_size, interrupts, write_counter, flushes, wlog, wait,
                 signalled, tpc, firstRecv>>
  /\ UNCHANGED <<layerVars, auxVars>>

\* ------------------------------------------------------- FlushGuard::drop
\* a drop that sends the Shutdown message twice
SendShutdownTwice ==
  LET o == SendOutcome(FALSE)
  IN /\ o # "block"
     /\ chan' = IF o = "sent" THEN chan \o <<Shutdown, Shutdown>> ELSE chan
     /\ gpc' = IF o = "sent" THEN "sent" ELSE "panicked"
     /\ sdAccepted' = Len(accepted)

\* self.sender.send(Message::Shutdown).expect(PANIC_MSG_DEAD_WRITER)
SendShutdown ==
  LET o == SendOutcome(FALSE)
  IN /\ o # "block"
     /\ chan' = IF o = "sent" THEN Append(chan, Shutdown) ELSE chan
     /\ gpc' = IF o = "sent" THEN "sent" ELSE "panicked"
     /\ sdAccepted' = Len(accepted)

\* self.handle.take().unwrap().join().unwrap()
JoinWorker ==
  /\ wpc \in {"done", "dead"}
  /\ gpc' = IF wpc = "done" THEN "joined" ELSE "panicked"

\* the program lets the guard go out of scope
GuardDrop ==
  /\ gpc = "held"
  /\ gpc' = "dropping"
  /\ UNCHANGED <<lossy, cap, chan, pnext, ppc, calls, accepted, sdAccepted,
                 rcvAccepted, wpc, wmode, cur, written, out, write_size, interrupts,
                 write_counter, flushes, wlog, wait, signalled, tpc, firstRecv>>
  /\ UNCHANGED <<layerVars, auxVars>>

GuardSend ==
  /\ gpc = "dropping"
  /\ SendShutdown
  /\ UNCHANGED <<lossy, cap, pnext, ppc, calls, accepted, rcvAccepted, wpc, wmode, cur,
                 written,
                 out, write_size, interrupts, write_counter, flushes, wlog, wait,
                 signalled, tpc, firstRecv>>
  /\ UNCHANGED <<layerVars, auxVars>>

GuardJoin ==
  /\ gpc = "sent"
  /\ JoinWorker
  /\ UNCHANGED <<lossy, cap, chan, pnext, ppc, calls, accepted, sdAccepted,
                 rcvAccepted, wpc, wmode, cur, written, out, write_size, interrupts,
                 write_counter, flushes, wlog, wait, signalled, tpc, firstRecv>>
  /\ UNCHANGED <<layerVars, auxVars>>

\* ------------------------------------------------------- WriterThread
\* a run() that flushes on Shutdown without draining the queue
AfterRecvNoDrain(msg, mode) ==
  IF msg.type = "Record" THEN [pc |-> "write", mode |-> mode, cur |-> msg.data]
  ELSE IF mode = "run" THEN [pc |-> "flush", mode |-> "drain", cur |-> <<>>]
  ELSE [pc |-> "dead", mode |-> mode, cur |-> <<>>]

\* what the thread does with a message it took from the queue:
\*   run():   Shutdown => drain(), any other message => handle_message
\*   drain(): every message => handle_message, whose Shutdown arm is unreachable!()
AfterRecv(msg, mode) ==
  IF msg.type = "Record" THEN [pc |-> "write", mode |-> mode, cur |-> msg.data]
  ELSE IF mode = "run" THEN [pc |-> "recv", mode |-> "drain", cur |-> <<>>]
  ELSE [pc |-> "dead", mode |-> mode, cur |-> <<>>]

\* run(): self.queue.recv().unwrap() -- blocks while the queue is empty
RunRecv ==
  /\ wpc = "recv" /\ wmode = "run"
  /\ chan # <<>>
  /\ LET a == AfterRecv(Head(chan), wmode)
     IN /\ wpc' = a.pc /\ wmode' = a.mode /\ cur' = a.cur
  /\ chan' = Tail(chan)
  /\ rcvAccepted' = IF Head(chan).type = "Shutdown" THEN Len(accepted) ELSE rcvAccepted
  /\ firstRecv' = IF firstRecv = -1 THEN Len(calls) ELSE firstRecv

\* drain(): while let Ok(msg) = self.queue.try_recv(); the loop ends on an empty
\* queue and run() goes on to the flush
DrainTryRecv ==
  /\ wpc = "recv" /\ wmode = "drain"
  /\ IF chan = <<>>
     THEN /\ wpc' = "flush" /\ UNCHANGED <<wmode, cur, chan>>
     ELSE /\ LET a == AfterRecv(Head(chan), wmode)
             IN /\ wpc' = a.pc /\ wmode' = a.mode /\ cur' = a.cur
                /\ chan' = IF a.pc = "dead" THEN <<>> ELSE Tail(chan)
  /\ UNCHANGED <<firstRecv, rcvAccepted>>

\* handle_message(Record(data)): let e = self.writer.write(&data).err();
\* handle_io_err(e) prints the error and the thread goes on
HandleRecord ==
  /\ wpc = "write"
  /\ wait => signalled
  /\ out' = out \o HandleRecordBytes(cur)
  /\ write_counter' = write_counter + 1
  /\ written' = Append(written, cur)
  /\ wlog' = Append(wlog, "w")
  /\ signalled' = FALSE
  /\ wpc' = "recv"
  /\ cur' = <<>>

\* run(), after the loop: self.writer.flush(); then the thread function returns
\* and drops the WriterThread with its Receiver, and the queue with it
FlushAndExit ==
  /\ wpc = "flush"
  /\ chan' = <<>>
  /\ flushes' = flushes + 1
  /\ wlog' = Append(wlog, "f")
  /\ wpc' = "done"

WorkerRecv ==
  /\ RunRecv
  /\ UNCHANGED <<lossy, cap, pnext, ppc, calls, accepted, gpc, sdAccepted, written, out,
                 write_size, interrupts, write_counter, flushes, wlog, wait,
                 signalled, tpc>>
  /\ UNCHANGED <<layerVars, auxVars>>

WorkerDrain ==
  /\ DrainTryRecv
  /\ UNCHANGED <<lossy, cap, pnext, ppc, calls, accepted, gpc, sdAccepted, written, out,
                 write_size, interrupts, write_counter, flushes, wlog, wait,
                 signalled, tpc>>
  /\ UNCHANGED <<layerVars, auxVars>>

WorkerWrite ==
  /\ HandleRecord
  /\ UNCHANGED <<lossy, cap, chan, pnext, ppc, calls, accepted, gpc, sdAccepted,
                 rcvAccepted, wmode, write_size, interrupts, flushes, wait, tpc,
                 firstRecv>>
  /\ UNCHANGED <<layerVars, auxVars>>

WorkerFlush ==
  /\ FlushAndExit
  /\ UNCHANGED <<lossy, cap, pnext, ppc, calls, accepted, gpc, sdAccepted,
                 rcvAccepted, wmode, cur, written, out, write_size, interrupts,
                 write_counter, wait, signalled, tpc, firstRecv>>
  /\ UNCHANGED <<layerVars, auxVars>>

ProducerStep == \E p \in Producers : ProducerWrite(p)

NextNB ==
  \/ ProducerStep
  \/ GuardDrop
  \/ GuardSend
  \/ GuardJoin
  \/ WorkerRecv
  \/ WorkerDrain
  \/ WorkerWrite
  \/ WorkerFlush

SpecNB == InitNB /\ [][NextNB]_vars

\* the writer thread and the thread dropping the guard are running threads
FairSpecNB ==
  /\ SpecNB
  /\ WF_vars(GuardSend) /\ WF_vars(GuardJoin)
  /\ WF_vars(WorkerRecv) /\ WF_vars(WorkerDrain)
  /\ WF_vars(WorkerWrite) /\ WF_vars(WorkerFlush)

\* ======================================================= NonBlocking claims
\* the payload the writer thread took from the queue and has not written yet
InFlight == IF wpc = "write" THEN <<cur>> ELSE <<>>

\* the payloads of producer p among a sequence of payloads
PayloadsOf(p) == [i \in 1..WritesOf(p) |-> SerializeJson(IntMsg(MsgOf(p, i)))]
ProjectOn(p, q) == SelectSeq(q, LAMBDA d : \E i \in 1..WritesOf(p) : d = PayloadsOf(p)[i])

\* C1: once the FlushGuard has been dropped, the bytes the underlying writer
\* received are the in-order concatenation of the payloads of the accepted
\* writes, for every underlying writer (short writes included).
C1_OutputIsConcatOfAccepted ==
  gpc = "joined" => out = Concat(accepted)

\* C2: dropping the FlushGuard eventually returns; when it has returned the
\* worker has terminated, has written every Record queued before the Shutdown
\* message and every Record still queued when it received Shutdown, and has
\* called flush exactly once, after the last record write.
C2_DropWaitsForDrainAndFlush ==
  /\ (gpc = "dropping") ~> (gpc = "joined")
  /\ [](gpc = "joined" =>
          /\ wpc = "done"
          /\ 0 <= sdAccepted /\ sdAccepted <= rcvAccepted
          /\ IsPrefix(SubSeq(accepted, 1, rcvAccepted), written)
          /\ flushes = 1
          /\ wlog = [i \in 1..Len(written) |-> "w"] \o <<"f">>)

\* the guard was dropped with records queued before the Shutdown message and
\* records queued behind it, and the drop has returned
C2_Witness ==
  /\ gpc = "joined"
  /\ sdAccepted >= 1
  /\ rcvAccepted > sdAccepted
  /\ Len(written) >= rcvAccepted

\* C3: in blocking mode no record is ever dropped (a write on a full channel
\* blocks until the worker frees a slot), the worker writes the records in the
\* order they entered the channel, and each producer's records keep their
\* relative order.
C3_BlockingNeverDropsAndKeepsOrder ==
  ~lossy =>
    /\ accepted = calls
    /\ written \o InFlight \o DataOf(RecordsOf(chan)) = accepted
    /\ \A p \in Producers : IsPrefix(ProjectOn(p, written), PayloadsOf(p))
    /\ \A p \in Producers :
         (ppc[p] = "run" /\ ReceiverAlive /\ Len(chan) >= cap) => ~ENABLED ProducerWrite(p)

NumBuffered == 2
\* for message in 0..10
NumMessages == 10

\* "hello world"
HelloWorld == [t |-> "str", v |-> <<104, 101, 108, 108, 111, 32, 119, 111, 114, 108, 100>>]

\* the statement the test thread executes next, tpc statements being done:
\* the ten writes, num_buffered signals, the sentinel write, one signal, drop(g)
\* (send Shutdown, join), then the assertion; tpc = -1: the thread panicked
TestStep ==
  IF tpc < 0 THEN "panicked"
  ELSE IF tpc < NumMessages THEN "write"
  ELSE IF tpc < NumMessages + NumBuffered THEN "signal"
  ELSE IF tpc = NumMessages + NumBuffered THEN "sentinel"
  ELSE IF tpc = NumMessages + NumBuffered + 1 THEN "signal"
  ELSE IF tpc = NumMessages + NumBuffered + 2 THEN "send"
  ELSE IF tpc = NumMessages + NumBuffered + 3 THEN "join"
  ELSE "assert"

InitDrops ==
  /\ lossy = TRUE
  /\ cap = NumBuffered
  /\ write_size = 0
  /\ interrupts = 0
  /\ wait = TRUE
  /\ pnext = [p \in Producers |-> 1]
  /\ ppc = [p \in Producers |-> "done"]
  /\ tpc = 0
  /\ Spawned
  /\ LayerIdle
  /\ AuxIdle

\* writer.write(Json, message).unwrap()
TestWrite ==
  /\ TestStep \in {"write", "sentinel"}
  /\ NBWrite(IF TestStep = "write" THEN IntMsg(tpc) ELSE HelloWorld)
  /\ tpc' = IF SendOutcome(lossy) = "panic" THEN -1 ELSE tpc + 1
  /\ UNCHANGED <<lossy, cap, pnext, ppc, gpc, sdAccepted, rcvAccepted, wpc, wmode, cur,
                 written, out, write_size, interrupts, write_counter, flushes, wlog,
                 wait, signalled, firstRecv>>
  /\ UNCHANGED <<layerVars, auxVars>>

\* the writer thread is inside TestWriter::write, in signal.recv_timeout
WriterWaiting == wait /\ wpc = "write" /\ ~signalled

\* the writer thread will not come to wait for a signal unless the test thread
\* acts: it has exited, or it is blocked in recv() on an empty queue
WriterNeverWaits == ~ReceiverAlive \/ (wpc = "recv" /\ wmode = "run" /\ chan = <<>>)

\* Signal::send over the flume::bounded(0) channel: a rendezvous with the
\* writer's recv_timeout; send_timeout(5 s).expect("writer stalled") panics
\* when the writer never comes to receive. The timeouts are taken to expire
\* only when the awaited thread cannot arrive.
TestSignal ==
  /\ TestStep = "signal"
  /\ WriterWaiting \/ WriterNeverWaits
  /\ signalled' = WriterWaiting
  /\ tpc' = IF WriterWaiting THEN tpc + 1 ELSE -1
  /\ UNCHANGED <<lossy, cap, chan, pnext, ppc, calls, accepted, gpc, sdAccepted,
                 rcvAccepted, wpc, wmode, cur, written, out, write_size, interrupts,
                 write_counter, flushes, wlog, wait, firstRecv>>
  /\ UNCHANGED <<layerVars, auxVars>>

\* drop(g), first statement
TestDropSend ==
  /\ TestStep = "send"
  /\ SendShutdown
  /\ tpc' = IF SendOutcome(FALSE) = "sent" THEN tpc + 1 ELSE -1
  /\ UNCHANGED <<lossy, cap, pnext, ppc, calls, accepted, rcvAccepted, wpc, wmode, cur,
                 written, out, write_size, interrupts, write_counter, flushes, wlog,
                 wait, signalled, firstRecv>>
  /\ UNCHANGED <<layerVars, auxVars>>

\* drop(g), second statement
TestJoin ==
  /\ TestStep = "join"
  /\ JoinWorker
  /\ tpc' = IF wpc = "done" THEN tpc + 1 ELSE -1
  /\ UNCHANGED <<lossy, cap, chan, pnext, ppc, calls, accepted, sdAccepted,
                 rcvAccepted, wpc, wmode, cur, written, out, write_size, interrupts,
                 write_counter, flushes, wlog, wait, signalled, firstRecv>>
  /\ UNCHANGED <<layerVars, auxVars>>

\* TestWriter::write: signal.recv_timeout(5 s).expect("writer stalled") panics
\* in the writer thread once the test thread sends no further signal
WorkerStallTimeout ==
  /\ WriterWaiting
  /\ TestStep \in {"send", "join", "assert", "panicked"}
  /\ wpc' = "dead"
  /\ chan' = <<>>
  /\ UNCHANGED <<lossy, cap, pnext, ppc, calls, accepted, gpc, sdAccepted,
                 rcvAccepted, wmode, cur, written, out, write_size, interrupts,
                 write_counter, flushes, wlog, wait, signalled, tpc, firstRecv>>
  /\ UNCHANGED <<layerVars, auxVars>>

NextDrops ==
  \/ TestWrite
  \/ TestSignal
  \/ TestDropSend
  \/ TestJoin
  \/ WorkerRecv
  \/ WorkerDrain
  \/ WorkerWrite
  \/ WorkerFlush
  \/ WorkerStallTimeout

SpecDrops == InitDrops /\ [][NextDrops]_vars

\* assert_eq!(output, "0\n1\n\"hello world\"\n")
ExpectedOutput ==
  SerializeJson(IntMsg(0)) \o SerializeJson(IntMsg(1)) \o SerializeJson(HelloWorld)

MaxSpans == 2
MaxDepth == 3

\* SpanEvents bits
SpanEventBits == {"NEW", "ENTER", "EXIT", "CLOSE"}

\* SerdeLayerBuilder: the fields that decide which records are emitted
Builders == [span_events : SUBSET SpanEventBits, time_spans : BOOLEAN]

\* the builders used when two layers are stacked on one registry
StackedBuilders ==
  { [span_events |-> {"CLOSE"}, time_spans |-> FALSE],
    [span_events |-> {}, time_spans |-> TRUE],
    [span_events |-> SpanEventBits, time_spans |-> FALSE] }

\* a build that records span closes only when the CLOSE bit is set
finishIgnoringTimeSpans(b) ==
  [ record_span_create |-> "NEW" \in b.span_events,
    record_span_close |-> "CLOSE" \in b.span_events,
    record_span_enter |-> "ENTER" \in b.span_events,
    record_span_exit |-> "EXIT" \in b.span_events,
    time_spans |-> b.time_spans ]

\* a build that records span closes whatever the configuration
finishAlwaysRecordingClose(b) ==
  [ record_span_create |-> "NEW" \in b.span_events,
    record_span_close |-> TRUE,
    record_span_enter |-> "ENTER" \in b.span_events,
    record_span_exit |-> "EXIT" \in b.span_events,
    time_spans |-> b.time_spans ]

\* SerdeLayerBuilder::finish
finish(b) ==
  [ record_span_create |-> "NEW" \in b.span_events,
    record_span_close |-> ("CLOSE" \in b.span_events) \/ b.time_spans,
    record_span_enter |-> "ENTER" \in b.span_events,
    record_span_exit |-> "EXIT" \in b.span_events,
    time_spans |-> b.time_spans ]

\* the l-th layer of the subscriber, the one next to the registry being 1
Layer(l) == finish(layers[l])

\* SpanItem::Start and SpanItem::Field; span is the span the item belongs to
\* (it stands for the name and the values, which differ from span to span)
Start(id) == [item |-> "Start", span |-> id]
Field(id) == [item |-> "Field", span |-> id]

\* attrs.record(&mut visitor): spans with an even id carry one field, others none
FieldsOf(id) == IF id % 2 = 0 THEN <<Field(id)>> ELSE <<>>

\* a fragment with the fields pushed before the Start item
NewFragmentFieldsFirst(id) == FieldsOf(id) \o <<Start(id)>>

\* Spans::new_span followed by the FieldVisitor: the fragment of one span
NewFragment(id) == <<Start(id)>> \o FieldsOf(id)

\* Spans::serialize: one element per Start item; the ids of the elements
SpanList(items) ==
  LET starts == SelectSeq(items, LAMBDA it : it.item = "Start")
  IN [i \in 1..Len(starts) |-> starts[i].span]

\* SpanStack::current: the topmost entry that is not a duplicate (0: none)
RECURSIVE CurrentOf(_)
CurrentOf(stk) ==
  IF stk = <<>> THEN 0
  ELSE IF ~stk[Len(stk)].duplicate THEN stk[Len(stk)].id
  ELSE CurrentOf(SubSeq(stk, 1, Len(stk) - 1))

OnStack(stk) == {stk[i].id : i \in 1..Len(stk)}

\* SpanStack::push
Push(stk, id) == Append(stk, [id |-> id, duplicate |-> id \in OnStack(stk)])

\* SpanStack::pop: removes the last entry of the id
Pop(stk, id) ==
  LET idx == CHOOSE i \in 1..Len(stk) :
               stk[i].id = id /\ \A j \in (i + 1)..Len(stk) : stk[j].id # id
  IN SubSeq(stk, 1, idx - 1) \o SubSeq(stk, idx + 1, Len(stk))

\* a walk that lists the innermost span first and the root last
RECURSIVE ChainInnermostFirst(_)
ChainInnermostFirst(id) ==
  IF id = 0 THEN <<>> ELSE <<id>> \o ChainInnermostFirst(parent[id])

\* SpanRef::scope().from_root(): the span's ancestors and the span, root first
RECURSIVE Chain(_)
Chain(id) == IF id = 0 THEN <<>> ELSE Chain(parent[id]) \o <<id>>

\* Spans::current with the extensions es and the stack stk
SpansCurrent(stk, es) ==
  LET c == Chain(CurrentOf(stk))
  IN Concat([i \in 1..Len(c) |-> es[c[i]]])

\* build_leave_span
build_leave_span(stk, id) == SpansCurrent(stk, ext_spans) \o ext_spans[id]

\* emit_event: the record handed to the layer's writer; span names the span the
\* callback was about (0 for on_event) and is not part of the output
emit_event(l, kind, spans, id, times) ==
  [layer |-> l, kind |-> kind, spans |-> spans, span |-> id, times |-> times]

\* an on_new_span that builds and inserts a fragment whether or not the span
\* has one
on_new_spanAlwaysBuilding(l, id, es, et) ==
  LET fragment == NewFragment(id)
      spanlist == SpansCurrent(stack, es) \o fragment
  IN [ es |-> [es EXCEPT ![id] = fragment],
       et |-> [et EXCEPT ![id] = et[id] \/ Layer(l).time_spans],
       visits |-> 1,
       recs |-> IF Layer(l).record_span_create
                THEN <<emit_event(l, "SpanCreate", spanlist, id, "-")>> ELSE <<>> ]

\* on_new_span of layer l with the extensions left by the layers below it;
\* visits counts the runs of attrs.record(&mut visitor)
on_new_span(l, id, es, et) ==
  LET fragment == IF es[id] = <<>> THEN NewFragment(id) ELSE es[id]
      spanlist == SpansCurrent(stack, es) \o fragment
  IN [ es |-> [es EXCEPT ![id] = fragment],
       et |-> [et EXCEPT ![id] = et[id] \/ Layer(l).time_spans],
       visits |-> IF es[id] = <<>> THEN 1 ELSE 0,
       recs |-> IF Layer(l).record_span_create
                THEN <<emit_event(l, "SpanCreate", spanlist, id, "-")>> ELSE <<>> ]

\* on_new_span of the layers 1..l in turn
RECURSIVE NotifyNewSpan(_, _)
NotifyNewSpan(l, id) ==
  IF l = 0
  THEN [es |-> Append(ext_spans, <<>>), et |-> Append(ext_timer, FALSE), visits |-> 0,
        recs |-> <<>>]
  ELSE LET below == NotifyNewSpan(l - 1, id)
           this == on_new_span(l, id, below.es, below.et)
       IN [es |-> this.es, et |-> this.et, visits |-> below.visits + this.visits,
           recs |-> below.recs \o this.recs]

on_event(l) == <<emit_event(l, "Event", SpansCurrent(stack, ext_spans), 0, "-")>>

\* on_enter; stk is the stack after the registry's enter
on_enter(l, id, stk) ==
  IF Layer(l).record_span_enter
  THEN <<emit_event(l, "SpanEnter", SpansCurrent(stk, ext_spans), id, "-")>>
  ELSE <<>>

\* on_exit; stk is the stack after the registry's exit
on_exit(l, id, stk) ==
  IF Layer(l).record_span_exit
  THEN <<emit_event(l, "SpanExit", build_leave_span(stk, id), id, "-")>>
  ELSE <<>>

on_close(l, id) ==
  IF Layer(l).record_span_close
  THEN <<emit_event(l, "SpanClose", build_leave_span(stack, id), id,
                    IF ext_timer[id] THEN "Some" ELSE "None")>>
  ELSE <<>>

LayerIds == 1..Len(layers)

\* the records one callback produces on all layers, innermost layer first
AllLayers(recsOf) == Concat([l \in LayerIds |-> recsOf[l]])

\* the host operation made n callbacks of one kind on each layer
Called(kind, n) == [k \in Kinds |-> IF k = kind THEN n ELSE 0]

\* number of records of a kind layer l emitted in the last host operation
NumRecords(l, kind) == Len(SelectSeq(emitted, LAMBDA r : r.layer = l /\ r.kind = kind))

\* the writer part of the state while only the layer is exercised
WriterIdle ==
  /\ lossy = FALSE
  /\ cap = 1
  /\ write_size = 0
  /\ interrupts = 0
  /\ wait = FALSE
  /\ pnext = [p \in Producers |-> 1]
  /\ ppc = [p \in Producers |-> "done"]
  /\ tpc = 0
  /\ Spawned

InitLayer ==
  /\ layers \in {<<b>> : b \in Builders}
                \cup {<<b1, b2>> : b1 \in StackedBuilders, b2 \in StackedBuilders}
  /\ nspans = 0
  /\ parent = <<>>
  /\ live = {}
  /\ handle = {}
  /\ stack = <<>>
  /\ everEntered = {}
  /\ ext_spans = <<>>
  /\ ext_timer = <<>>
  /\ emitted = <<>>
  /\ ncalls = [k \in Kinds |-> 0]
  /\ WriterIdle
  /\ AuxIdle

\* span!(...): the registry's new_span, then on_new_span of every layer.
\* par is 0 for `parent: None`, -1 for a contextual parent, else the id of the
\* span given as `parent: &span`.
NewSpanCall(par) ==
  /\ nspans < MaxSpans
  /\ par \in {-1, 0} \cup handle
  /\ LET id == nspans + 1
         done == NotifyNewSpan(Len(layers), id)
     IN /\ nspans' = id
        /\ parent' = Append(parent, IF par = -1 THEN CurrentOf(stack) ELSE par)
        /\ live' = live \cup {id}
        /\ handle' = handle \cup {id}
        /\ ext_spans' = done.es
        /\ ext_timer' = done.et
        /\ emitted' = done.recs
        /\ ncalls' = Called("SpanCreate", 1)
  /\ UNCHANGED <<layers, stack, everEntered>>

NewSpan(par) == NewSpanCall(par) /\ UNCHANGED <<nbVars, auxVars>>

\* span.enter(): the registry's enter, then on_enter of every layer
Enter(id) ==
  /\ id \in handle
  /\ Len(stack) < MaxDepth
  /\ stack' = Push(stack, id)
  /\ everEntered' = everEntered \cup {id}
  /\ emitted' = AllLayers([l \in LayerIds |-> on_enter(l, id, stack')])
  /\ ncalls' = Called("SpanEnter", 1)
  /\ UNCHANGED <<layers, nspans, parent, live, handle, ext_spans, ext_timer>>
  /\ UNCHANGED <<nbVars, auxVars>>

\* dropping an Entered guard: the registry's exit, then on_exit of every layer.
\* The handle outlives the guard, so the span is not closed here.
Exit(id) ==
  /\ id \in OnStack(stack)
  /\ stack' = Pop(stack, id)
  /\ emitted' = AllLayers([l \in LayerIds |-> on_exit(l, id, stack')])
  /\ ncalls' = Called("SpanExit", 1)
  /\ UNCHANGED <<layers, nspans, parent, live, handle, everEntered, ext_spans, ext_timer>>
  /\ UNCHANGED <<nbVars, auxVars>>

\* event!(...)
Event ==
  /\ emitted' = AllLayers([l \in LayerIds |-> on_event(l)])
  /\ ncalls' = Called("Event", 1)
  /\ UNCHANGED <<layers, nspans, parent, live, handle, stack, everEntered,
                 ext_spans, ext_timer>>
  /\ UNCHANGED <<nbVars, auxVars>>

\* the live children of a span
Children(id, alive) == {c \in alive : parent[c] = id}

\* the spans try_close closes when the last handle of id goes: id, then its
\* parent when id was the last reference to it, and so on up the chain
RECURSIVE Closing(_, _)
Closing(id, alive) ==
  LET p == parent[id]
  IN <<id>> \o (IF p # 0 /\ p \notin handle /\ Children(p, alive) = {id}
                THEN Closing(p, alive \ {id}) ELSE <<>>)

\* drop(span): try_close; on_close of every layer for each span that closes,
\* the span being removed from the registry after its callbacks
DropHandle(id) ==
  /\ id \in handle
  /\ id \notin OnStack(stack)
  /\ handle' = handle \ {id}
  /\ LET closing == IF Children(id, live) = {} THEN Closing(id, live) ELSE <<>>
         recs == Concat([i \in 1..Len(closing) |->
                           AllLayers([l \in LayerIds |-> on_close(l, closing[i])])])
     IN /\ live' = live \ {closing[i] : i \in 1..Len(closing)}
        /\ emitted' = recs
        /\ ncalls' = Called("SpanClose", Len(closing))
  /\ UNCHANGED <<layers, nspans, parent, stack, everEntered, ext_spans, ext_timer>>
  /\ UNCHANGED <<nbVars, auxVars>>

NewSpanStep == \E par \in -1..MaxSpans : NewSpan(par)
EnterStep == \E id \in 1..MaxSpans : Enter(id)
ExitStep == \E id \in 1..MaxSpans : Exit(id)
DropStep == \E id \in 1..MaxSpans : DropHandle(id)

NextLayer ==
  \/ NewSpanStep
  \/ EnterStep
  \/ ExitStep
  \/ Event
  \/ DropStep

SpecLayer == InitLayer /\ [][NextLayer]_vars

\* ------------------------------------------------ claims about the layer
RecordsOfKind(kinds) == {emitted[i] : i \in {j \in 1..Len(emitted) : emitted[j].kind \in kinds}}

\* s lists a span's ancestors root first, then the span, each once
IsChainTo(s, id) ==
  /\ s # <<>>
  /\ s[Len(s)] = id
  /\ parent[s[1]] = 0
  /\ \A i \in 1..(Len(s) - 1) : parent[s[i + 1]] = s[i]
  /\ \A i, j \in 1..Len(s) : s[i] = s[j] => i = j

\* spans that were entered and are not entered now
Exited == everEntered \ OnStack(stack)

\* spans the registry has removed
Closed == (1..nspans) \ live

\* the records of the other kinds, which every statement of C6 shares
CountsOfOtherKinds(l) ==
  /\ NumRecords(l, "Event") = ncalls["Event"]
  /\ NumRecords(l, "SpanCreate") =
       IF "NEW" \in layers[l].span_events THEN ncalls["SpanCreate"] ELSE 0
  /\ NumRecords(l, "SpanEnter") =
       IF "ENTER" \in layers[l].span_events THEN ncalls["SpanEnter"] ELSE 0
  /\ NumRecords(l, "SpanExit") =
       IF "EXIT" \in layers[l].span_events THEN ncalls["SpanExit"] ELSE 0

\* C6 as stated: in every host operation each layer emits one Event record per
\* on_event callback, and as many SpanCreate / SpanEnter / SpanExit / SpanClose
\* records as it got on_new_span / on_enter / on_exit / on_close callbacks when
\* the NEW / ENTER / EXIT / CLOSE bit is set, none when the bit is clear.
C6_CountsFollowSpanEvents ==
  \A l \in LayerIds :
    /\ CountsOfOtherKinds(l)
    /\ NumRecords(l, "SpanClose") =
         IF "CLOSE" \in layers[l].span_events THEN ncalls["SpanClose"] ELSE 0

\* C6 amended: as stated for Event, SpanCreate, SpanEnter and SpanExit; a layer
\* emits one SpanClose record per on_close callback when the CLOSE bit is set
\* or time_spans is on, and none only when both are off.
C6_CloseCountsFollowTimeSpansToo ==
  \A l \in LayerIds :
    /\ CountsOfOtherKinds(l)
    /\ NumRecords(l, "SpanClose") =
         IF "CLOSE" \in layers[l].span_events \/ layers[l].time_spans
         THEN ncalls["SpanClose"] ELSE 0

\* dropping a handle closed a span and its parent; a layer without the CLOSE
\* bit and with time_spans emitted both SpanClose records
C6_Witness ==
  /\ Len(layers) = 1
  /\ layers[1].time_spans
  /\ layers[1].span_events = {"NEW", "ENTER"}
  /\ ncalls["SpanClose"] = 2
  /\ NumRecords(1, "SpanClose") = 2
  /\ NumRecords(1, "SpanExit") = 0

\* C7 as stated: the spans of every Event record are the ancestors of the
\* current span, root first, each once, ending with the current span; empty
\* when no span is current; no span in the list is exited or closed.
C7_EventSpansAreLiveEnteredChain ==
  \A r \in RecordsOfKind({"Event"}) :
    LET s == SpanList(r.spans)
        c == CurrentOf(stack)
    IN /\ (c = 0) => (s = <<>>)
       /\ (c # 0) => IsChainTo(s, c)
       /\ \A i \in 1..Len(s) : s[i] \notin Closed /\ s[i] \notin Exited

\* C7 amended: as stated, except that the list may contain ancestors that have
\* been exited (a span created inside an entered span keeps it as its parent
\* after that span is exited); it never contains a closed span.
C7_EventSpansAreLiveChain ==
  \A r \in RecordsOfKind({"Event"}) :
    LET s == SpanList(r.spans)
        c == CurrentOf(stack)
    IN /\ (c = 0) => (s = <<>>)
       /\ (c # 0) => IsChainTo(s, c)
       /\ \A i \in 1..Len(s) : s[i] \notin Closed

\* an event inside a span whose parent has been exited and lost its handle
C7_Witness ==
  \E r \in RecordsOfKind({"Event"}) :
    /\ SpanList(r.spans) = <<1, 2>>
    /\ r.spans = <<Start(1), Start(2), Field(2)>>
    /\ 1 \in Exited
    /\ 1 \notin handle

\* C8: the last element of the spans of every SpanCreate, SpanEnter, SpanExit
\* and SpanClose record is the span that was created, entered, exited, closed.
C8_AffectedSpanIsLast ==
  \A r \in RecordsOfKind({"SpanCreate", "SpanEnter", "SpanExit", "SpanClose"}) :
    LET s == SpanList(r.spans)
    IN s # <<>> /\ s[Len(s)] = r.span

\* C9: the spans of every SpanExit and SpanClose record are the parent chain of
\* the affected span, root first, followed by that span, each span once.
C9_LeaveSpansAreParentChain ==
  \A r \in RecordsOfKind({"SpanExit", "SpanClose"}) :
    IsChainTo(SpanList(r.spans), r.span)

\* C10: a SpanClose record carries Some(SpanTime) exactly when the layer that
\* emitted it has time_spans on.
C10_TimesIffLayerTimesSpans ==
  \A r \in RecordsOfKind({"SpanClose"}) :
    (r.times = "Some") <=> layers[r.layer].time_spans

\* C11: a layer with time_spans on and the CLOSE bit clear emits one SpanClose
\* record for every on_close callback; a layer with time_spans off and the
\* CLOSE bit clear emits none.
C11_TimeSpansImpliesClose ==
  \A l \in LayerIds :
    ("CLOSE" \notin layers[l].span_events) =>
       NumRecords(l, "SpanClose") = IF layers[l].time_spans THEN ncalls["SpanClose"] ELSE 0

\* a layer with time_spans and no span event bit saw a span close and emitted
\* the SpanClose record, its only record of the run
C11_Witness ==
  /\ layers = <<[span_events |-> {}, time_spans |-> TRUE]>>
  /\ ncalls["SpanClose"] = 1
  /\ nspans = 2
  /\ \E r \in RecordsOfKind({"SpanClose"}) : r.layer = 1 /\ r.times = "Some"
  /\ Len(emitted) = 1

\* ===================================================== span timing scenario
\* One layer with span_events = NEW|ENTER|EXIT|CLOSE and time_spans; the program
\* creates a span, enters it, emits an event, exits the span and drops it, the
\* monotonic clock advancing at any point in between.
MaxNow == 3

\* The durations are u64 nanoseconds; the sums stay far below 2^64 (584 years)
\* and are kept as plain integers.
\* SpanTimer::new
SpanTimerNew == [busy |-> 0, idle |-> 0, last_update |-> now]

\* a start_busy that leaves last_update alone
start_busyKeepingLastUpdate(t) ==
  [t EXCEPT !.idle = t.idle + (now - t.last_update)]

\* SpanTimer::start_busy
start_busy(t) ==
  [t EXCEPT !.idle = t.idle + (now - t.last_update), !.last_update = now]

\* an end_busy that adds the elapsed time to idle
end_busyAsIdle(t) ==
  [t EXCEPT !.idle = t.idle + (now - t.last_update), !.last_update = now]

\* SpanTimer::end_busy
end_busy(t) ==
  [t EXCEPT !.busy = t.busy + (now - t.last_update), !.last_update = now]

\* SpanTimer::finish, as the Option<SpanTime> of a record
SpanTimerFinish(t) == [some |-> TRUE, busy |-> t.busy, idle |-> t.idle]
NoSpanTime == [some |-> FALSE, busy |-> 0, idle |-> 0]

\* the records of one operation as they reach the writer: the kind, the
\* SpanTime of a SpanClose, and the instant of the callback
Stamped(recs) ==
  [i \in 1..Len(recs) |->
     [ kind |-> recs[i].kind,
       times |-> IF recs[i].times = "Some"
                 THEN SpanTimerFinish(timers[recs[i].span]) ELSE NoSpanTime,
       at |-> now ]]

InitTimed ==
  /\ layers = <<[span_events |-> SpanEventBits, time_spans |-> TRUE]>>
  /\ nspans = 0
  /\ parent = <<>>
  /\ live = {}
  /\ handle = {}
  /\ stack = <<>>
  /\ everEntered = {}
  /\ ext_spans = <<>>
  /\ ext_timer = <<>>
  /\ emitted = <<>>
  /\ ncalls = [k \in Kinds |-> 0]
  /\ WriterIdle
  /\ AuxIdle

\* Instant::now() has advanced
Tick ==
  /\ now < MaxNow
  /\ now' = now + 1
  /\ UNCHANGED <<timers, log, step, fmtVars, emitVars, extVars>>
  /\ UNCHANGED <<nbVars, layerVars>>

\* let span = span!(...)
TimedNewSpan ==
  /\ step = 0
  /\ LET id == nspans + 1
         done == NotifyNewSpan(Len(layers), id)
     IN /\ nspans' = id
        /\ parent' = Append(parent, CurrentOf(stack))
        /\ live' = live \cup {id}
        /\ handle' = handle \cup {id}
        /\ ext_spans' = done.es
        /\ ext_timer' = done.et
        /\ timers' = Append(timers, SpanTimerNew)
        /\ emitted' = done.recs
        /\ ncalls' = Called("SpanCreate", 1)
        /\ log' = log \o Stamped(done.recs)
  /\ step' = 1
  /\ UNCHANGED <<layers, stack, everEntered, now>>
  /\ UNCHANGED <<nbVars, fmtVars, emitVars, extVars>>

\* let guard = span.enter()
TimedEnter ==
  /\ step = 1
  /\ stack' = Push(stack, 1)
  /\ everEntered' = everEntered \cup {1}
  /\ emitted' = AllLayers([l \in LayerIds |-> on_enter(l, 1, stack')])
  /\ ncalls' = Called("SpanEnter", 1)
  /\ timers' = IF (Layer(1).record_span_enter \/ Layer(1).time_spans) /\ ext_timer[1]
               THEN [timers EXCEPT ![1] = start_busy(@)] ELSE timers
  /\ log' = log \o Stamped(emitted')
  /\ step' = 2
  /\ UNCHANGED <<layers, nspans, parent, live, handle, ext_spans, ext_timer, now>>
  /\ UNCHANGED <<nbVars, fmtVars, emitVars, extVars>>

\* event!(...)
TimedEvent ==
  /\ step = 2
  /\ emitted' = AllLayers([l \in LayerIds |-> on_event(l)])
  /\ ncalls' = Called("Event", 1)
  /\ log' = log \o Stamped(emitted')
  /\ step' = 3
  /\ UNCHANGED <<layers, nspans, parent, live, handle, stack, everEntered,
                 ext_spans, ext_timer, now, timers>>
  /\ UNCHANGED <<nbVars, fmtVars, emitVars, extVars>>

\* drop(guard)
TimedExit ==
  /\ step = 3
  /\ stack' = Pop(stack, 1)
  /\ emitted' = AllLayers([l \in LayerIds |-> on_exit(l, 1, stack')])
  /\ ncalls' = Called("SpanExit", 1)
  /\ timers' = IF (Layer(1).record_span_exit \/ Layer(1).time_spans) /\ ext_timer[1]
               THEN [timers EXCEPT ![1] = end_busy(@)] ELSE timers
  /\ log' = log \o Stamped(emitted')
  /\ step' = 4
  /\ UNCHANGED <<layers, nspans, parent, live, handle, everEntered, ext_spans,
                 ext_timer, now>>
  /\ UNCHANGED <<nbVars, fmtVars, emitVars, extVars>>

\* drop(span)
TimedClose ==
  /\ step = 4
  /\ handle' = handle \ {1}
  /\ live' = live \ {1}
  /\ emitted' = AllLayers([l \in LayerIds |-> on_close(l, 1)])
  /\ ncalls' = Called("SpanClose", 1)
  /\ log' = log \o Stamped(emitted')
  /\ step' = 5
  /\ UNCHANGED <<layers, nspans, parent, stack, everEntered, ext_spans, ext_timer,
                 now, timers>>
  /\ UNCHANGED <<nbVars, fmtVars, emitVars, extVars>>

NextTimed ==
  \/ Tick
  \/ TimedNewSpan
  \/ TimedEnter
  \/ TimedEvent
  \/ TimedExit
  \/ TimedClose

SpecTimed == InitTimed /\ [][NextTimed]_vars

\* the kinds of the records emitted so far
LogKinds == [i \in 1..Len(log) |-> log[i].kind]

\* C12: the scenario emits SpanCreate, SpanEnter, Event, SpanExit, SpanClose in
\* that order, one record per operation; the SpanClose record carries a
\* SpanTime, and its busy time is positive whenever the clock advanced between
\* the enter and the exit.
C12_TimedScenarioRecords ==
  /\ LogKinds = SubSeq(<<"SpanCreate", "SpanEnter", "Event", "SpanExit", "SpanClose">>, 1, step)
  /\ step = 5 =>
       /\ log[5].times.some
       /\ (log[4].at > log[2].at) => (log[5].times.busy > 0)
       /\ log[5].times.busy = log[4].at - log[2].at

\* the scenario ran with the clock advancing once before the enter and twice
\* between the enter and the exit
C12_Witness ==
  /\ step = 5
  /\ log[2].at = 1
  /\ log[4].at = 3
  /\ log[5].times = [some |-> TRUE, busy |-> 2, idle |-> 1]

\* ================================================= formats and the consumer
\* Values are written the way serde hands them to a data format: scalars,
\* sequences and maps with ordered entries. The text of a JSON document and the
\* bytes of a MessagePack object are the data format crates' concern; what the
\* crate decides is the shape (keys, skipped fields, untagged values, tagging
\* of the kinds) and what the formats cannot carry. Scalars are kept as the
\* strings of their literals.
Formats == {"Json", "MessagePack"}

\* FieldValue
FvBool(v) == [ty |-> "Bool", v |-> v]
FvInt(v) == [ty |-> "Int", v |-> v]
FvFloat(v) == [ty |-> "Float", v |-> v]
FvStr(v) == [ty |-> "Str", v |-> v]

\* the f64 literals that are not finite
NonFinite == {"NaN", "inf", "-inf"}

\* the serde data model
WNull == [j |-> "null", v |-> ""]
WBool(v) == [j |-> "bool", v |-> v]
WInt(v) == [j |-> "int", v |-> v]
WFloat(v) == [j |-> "float", v |-> v]
WStr(v) == [j |-> "str", v |-> v]
WSeq(items) == [j |-> "seq", v |-> items]
WMap(entries) == [j |-> "map", v |-> entries]

\* Serializer::serialize_f64: serde_json writes null for NaN and the
\* infinities, rmp_serde writes the eight bytes of the value
SerFloat(fmt, v) == IF fmt = "Json" /\ v \in NonFinite THEN WNull ELSE WFloat(v)

\* #[serde(untagged)] FieldValue, serialized
SerFieldValue(fmt, fv) ==
  CASE fv.ty = "Bool" -> WBool(fv.v)
    [] fv.ty = "Int" -> WInt(fv.v)
    [] fv.ty = "Float" -> SerFloat(fmt, fv.v)
    [] fv.ty = "Str" -> WStr(fv.v)

\* serialize_event_fields / SerializeSpanFields / IndexMap: one map entry per
\* field, in order
SerFields(fmt, fields) ==
  WMap([i \in 1..Len(fields) |-> <<fields[i][1], SerFieldValue(fmt, fields[i][2])>>])

\* Serialize_repr for Level
Levels == <<"Trace", "Debug", "Info", "Warn", "Error">>
LevelRepr(l) == CHOOSE n \in {"0", "1", "2", "3", "4"} :
                  \E i \in 1..5 : Levels[i] = l /\ n = <<"0", "1", "2", "3", "4">>[i]

\* SpanTime, UnixTime
SerSpanTime(t) == WMap(<<<<"busy", WInt(t.busy)>>, <<"idle", WInt(t.idle)>>>>)
SerUnixTime(t) == WMap(<<<<"s", WInt(t.seconds)>>, <<"n", WInt(t.nanos)>>>>)

\* Option<T>: <<>> is None, <<x>> is Some(x)
SerOption(o, ser(_)) == IF o = <<>> THEN WNull ELSE ser(o[1])

\* EventKind with rename_all = "snake_case": a unit variant is its name, a
\* newtype variant a map of one entry
SerKind(fmt, kind) ==
  CASE kind.k = "Event" -> WMap(<<<<"event", SerFields(fmt, kind.fields)>>>>)
    [] kind.k = "SpanCreate" -> WStr("span_create")
    [] kind.k = "SpanClose" -> WMap(<<<<"span_close", SerOption(kind.times, SerSpanTime)>>>>)
    [] kind.k = "SpanEnter" -> WStr("span_enter")
    [] kind.k = "SpanExit" -> WStr("span_exit")

\* an entry that skip_serializing_if = "Option::is_none" leaves out
SkipNone(key, o, ser(_)) == IF o = <<>> THEN <<>> ELSE <<<<key, ser(o[1])>>>>

\* SpanItem of the subscriber side
ItemStart(name, id) == [item |-> "Start", name |-> name, id |-> id, val |-> FvStr("")]
ItemField(name, val) == [item |-> "Field", name |-> name, id |-> <<>>, val |-> val]

\* the items of a Spans from the Start at position i up to the next Start
FragmentEnd(items, i) ==
  IF \E k \in (i + 1)..Len(items) : items[k].item = "Start"
  THEN (CHOOSE k \in (i + 1)..Len(items) :
          items[k].item = "Start" /\ \A m \in (i + 1)..(k - 1) : items[m].item # "Start") - 1
  ELSE Len(items)

\* SerializeSpan: "n", "i" when the id is Some, "f"
SerializeSpan(fmt, frag) ==
  WMap(<<<<"n", WStr(frag[1].name)>>>>
       \o SkipNone("i", frag[1].id, WInt)
       \o <<<<"f", SerFields(fmt, [k \in 1..(Len(frag) - 1) |->
                                     <<frag[k + 1].name, frag[k + 1].val>>])>>>>)

\* impl Serialize for Spans: one element per Start item
SerializeSpans(fmt, items) ==
  LET starts == {i \in 1..Len(items) : items[i].item = "Start"}
      nth(n) == CHOOSE i \in starts : Cardinality({k \in starts : k < i}) = n - 1
  IN IF items = <<>> THEN WSeq(<<>>)
     ELSE WSeq([n \in 1..Cardinality(starts) |->
                 SerializeSpan(fmt, SubSeq(items, nth(n), FragmentEnd(items, nth(n))))])

\* subscriber::serialize::Event, the record the layer writes: short keys
SerializeLayerEvent(fmt, e) ==
  WMap(<<<<"ty", SerKind(fmt, e.kind)>>,
         <<"l", WInt(LevelRepr(e.level))>>,
         <<"s", SerializeSpans(fmt, e.spans)>>,
         <<"t", WStr(e.target)>>>>
       \o SkipNone("tid", e.thread_id, WInt)
       \o SkipNone("tn", e.thread_name, WStr)
       \o SkipNone("srl", e.src_line, WInt)
       \o SkipNone("srf", e.src_file, WStr)
       \o SkipNone("tm", e.time, SerUnixTime))

\* event::Span, derived Serialize: an alias does not rename, the keys are long
SerializeOwnedSpan(fmt, sp) ==
  WMap(<<<<"name", WStr(sp.name)>>>>
       \o SkipNone("id", sp.id, WInt)
       \o <<<<"fields", SerFields(fmt, sp.fields)>>>>)

\* event::Event, derived Serialize
SerializeOwnedEvent(fmt, e) ==
  WMap(<<<<"kind", SerKind(fmt, e.kind)>>,
         <<"level", WInt(LevelRepr(e.level))>>,
         <<"spans", WSeq([i \in 1..Len(e.spans) |-> SerializeOwnedSpan(fmt, e.spans[i])])>>,
         <<"target", WStr(e.target)>>>>
       \o SkipNone("thread_id", e.thread_id, WInt)
       \o SkipNone("thread_name", e.thread_name, WStr)
       \o SkipNone("src_line", e.src_line, WInt)
       \o SkipNone("src_file", e.src_file, WStr)
       \o SkipNone("time", e.time, SerUnixTime))

\* ---- Deserialize of the consumer side (event.rs); a result is Ok(value) or Err
Ok(x) == [ok |-> TRUE, val |-> x]
Err == [ok |-> FALSE, val |-> <<>>]

DeInt(w) == IF w.j = "int" THEN Ok(w.v) ELSE Err
DeStr(w) == IF w.j = "str" THEN Ok(w.v) ELSE Err

\* Option<T>: null is None, anything else must be a T
DeOption(w, de(_)) ==
  IF w.j = "null" THEN Ok(<<>>)
  ELSE IF de(w).ok THEN Ok(<<de(w).val>>) ELSE Err

\* Vec<T>
DeSeq(w, de(_)) ==
  IF w.j # "seq" THEN Err
  ELSE IF \E i \in 1..Len(w.v) : ~de(w.v[i]).ok THEN Err
  ELSE Ok([i \in 1..Len(w.v) |-> de(w.v[i]).val])

\* #[serde(untagged)] FieldValue: the first of Bool, Int, Float, Str that the
\* value fits; "data did not match any variant" otherwise
DeFieldValue(w) ==
  CASE w.j = "bool" -> Ok(FvBool(w.v))
    [] w.j = "int" -> Ok(FvInt(w.v))
    [] w.j = "float" -> Ok(FvFloat(w.v))
    [] w.j = "str" -> Ok(FvStr(w.v))
    [] OTHER -> Err

\* IndexMap::insert: a key that is present keeps its place and gets the value
IndexMapInsert(m, k, v) ==
  IF \E i \in 1..Len(m) : m[i][1] = k
  THEN [i \in 1..Len(m) |-> IF m[i][1] = k THEN <<k, v>> ELSE m[i]]
  ELSE Append(m, <<k, v>>)

RECURSIVE IndexMapCollect(_)
IndexMapCollect(entries) ==
  IF entries = <<>> THEN <<>>
  ELSE LET n == Len(entries)
       IN IndexMapInsert(IndexMapCollect(SubSeq(entries, 1, n - 1)),
                         entries[n][1], entries[n][2])

\* IndexMap<String, FieldValue>
DeIndexMap(w) ==
  IF w.j # "map" THEN Err
  ELSE IF \E i \in 1..Len(w.v) : ~DeFieldValue(w.v[i][2]).ok THEN Err
  ELSE Ok(IndexMapCollect([i \in 1..Len(w.v) |-> <<w.v[i][1], DeFieldValue(w.v[i][2]).val>>]))

\* the entries of a map that name one struct field, by its name or its alias
EntriesFor(w, keys) == SelectSeq(w.v, LAMBDA en : en[1] \in keys)

\* a struct field that must be present: "missing field" without an entry,
\* "duplicate field" with two
Required(w, keys, de(_)) ==
  IF Len(EntriesFor(w, keys)) # 1 THEN Err ELSE de(EntriesFor(w, keys)[1][2])

\* an Option field, #[serde(default)]: None without an entry
Optional(w, keys, de(_)) ==
  IF Len(EntriesFor(w, keys)) = 0 THEN Ok(<<>>)
  ELSE IF Len(EntriesFor(w, keys)) > 1 THEN Err
  ELSE DeOption(EntriesFor(w, keys)[1][2], de)

\* Deserialize_repr for Level
DeLevel(w) ==
  IF w.j = "int" /\ w.v \in {"0", "1", "2", "3", "4"}
  THEN Ok(CHOOSE l \in {Levels[i] : i \in 1..5} : LevelRepr(l) = w.v)
  ELSE Err

DeSpanTime(w) ==
  IF w.j # "map" THEN Err
  ELSE LET busy == Required(w, {"busy"}, DeInt)
           idle == Required(w, {"idle"}, DeInt)
       IN IF busy.ok /\ idle.ok THEN Ok([busy |-> busy.val, idle |-> idle.val]) ELSE Err

DeUnixTime(w) ==
  IF w.j # "map" THEN Err
  ELSE LET seconds == Required(w, {"s"}, DeInt)
           nanos == Required(w, {"n"}, DeInt)
       IN IF seconds.ok /\ nanos.ok
          THEN Ok([seconds |-> seconds.val, nanos |-> nanos.val]) ELSE Err

\* the value of an EventKind
Kind(k, fields, times) == [k |-> k, fields |-> fields, times |-> times]

UnitKinds == {<<"span_create", "SpanCreate">>, <<"span_enter", "SpanEnter">>,
              <<"span_exit", "SpanExit">>}

\* event::EventKind, externally tagged
DeKind(w) ==
  IF w.j = "str"
  THEN IF \E u \in UnitKinds : u[1] = w.v
       THEN Ok(Kind((CHOOSE u \in UnitKinds : u[1] = w.v)[2], <<>>, <<>>)) ELSE Err
  ELSE IF w.j # "map" \/ Len(w.v) # 1 THEN Err
  ELSE LET tag == w.v[1][1]
           body == w.v[1][2]
       IN CASE tag = "event" ->
                 IF DeIndexMap(body).ok THEN Ok(Kind("Event", DeIndexMap(body).val, <<>>)) ELSE Err
            [] tag = "span_close" ->
                 IF DeOption(body, DeSpanTime).ok
                 THEN Ok(Kind("SpanClose", <<>>, DeOption(body, DeSpanTime).val)) ELSE Err
            [] (\E u \in UnitKinds : u[1] = tag) /\ body.j = "null" ->
                 Ok(Kind((CHOOSE u \in UnitKinds : u[1] = tag)[2], <<>>, <<>>))
            [] OTHER -> Err

\* event::Span with the aliases n, i, f
DeSpan(w) ==
  IF w.j # "map" THEN Err
  ELSE LET name == Required(w, {"name", "n"}, DeStr)
           id == Optional(w, {"id", "i"}, DeInt)
           fields == Required(w, {"fields", "f"}, DeIndexMap)
       IN IF name.ok /\ id.ok /\ fields.ok
          THEN Ok([name |-> name.val, id |-> id.val, fields |-> fields.val]) ELSE Err

DeSpans(w) == DeSeq(w, DeSpan)

\* a Deserialize of Event that knows the long keys only
DeEventLongKeysOnly(w) ==
  IF w.j # "map" THEN Err
  ELSE LET kind == Required(w, {"kind"}, DeKind)
           level == Required(w, {"level"}, DeLevel)
           spans == Required(w, {"spans"}, DeSpans)
           target == Required(w, {"target"}, DeStr)
           thread_id == Optional(w, {"thread_id"}, DeInt)
           thread_name == Optional(w, {"thread_name"}, DeStr)
           src_line == Optional(w, {"src_line"}, DeInt)
           src_file == Optional(w, {"src_file"}, DeStr)
           time == Optional(w, {"time"}, DeUnixTime)
       IN IF kind.ok /\ level.ok /\ spans.ok /\ target.ok /\ thread_id.ok
             /\ thread_name.ok /\ src_line.ok /\ src_file.ok /\ time.ok
          THEN Ok([kind |-> kind.val, level |-> level.val, spans |-> spans.val,
                   target |-> target.val, thread_id |-> thread_id.val,
                   thread_name |-> thread_name.val, src_line |-> src_line.val,
                   src_file |-> src_file.val, time |-> time.val])
          ELSE Err

\* event::Event with the aliases ty, l, s, t, tid, tn, srl, srf, tm
DeEvent(w) ==
  IF w.j # "map" THEN Err
  ELSE LET kind == Required(w, {"kind", "ty"}, DeKind)
           level == Required(w, {"level", "l"}, DeLevel)
           spans == Required(w, {"spans", "s"}, DeSpans)
           target == Required(w, {"target", "t"}, DeStr)
           thread_id == Optional(w, {"thread_id", "tid"}, DeInt)
           thread_name == Optional(w, {"thread_name", "tn"}, DeStr)
           src_line == Optional(w, {"src_line", "srl"}, DeInt)
           src_file == Optional(w, {"src_file", "srf"}, DeStr)
           time == Optional(w, {"time", "tm"}, DeUnixTime)
       IN IF kind.ok /\ level.ok /\ spans.ok /\ target.ok /\ thread_id.ok
             /\ thread_name.ok /\ src_line.ok /\ src_file.ok /\ time.ok
          THEN Ok([kind |-> kind.val, level |-> level.val, spans |-> spans.val,
                   target |-> target.val, thread_id |-> thread_id.val,
                   thread_name |-> thread_name.val, src_line |-> src_line.val,
                   src_file |-> src_file.val, time |-> time.val])
          ELSE Err

\* ---- the events of the round trip and the stream
MaxStream == 2

NoOptions ==
  [thread_id |-> <<>>, thread_name |-> <<>>, src_line |-> <<>>, src_file |-> <<>>,
   time |-> <<>>]

AllOptions ==
  [thread_id |-> <<"2">>, thread_name |-> <<"worker">>, src_line |-> <<"34">>,
   src_file |-> <<"path/to/code.rs">>, time |-> <<[seconds |-> "0", nanos |-> "0"]>>]

\* an Event of the subscriber side
LayerEvent(kind, level, spans, target, o) ==
  [kind |-> kind, level |-> level, spans |-> spans, target |-> target,
   thread_id |-> o.thread_id, thread_name |-> o.thread_name,
   src_line |-> o.src_line, src_file |-> o.src_file, time |-> o.time]

MixedFields ==
  <<<<"q", FvBool("false")>>, <<"a", FvInt("4")>>, <<"x", FvFloat("4.01")>>,
    <<"b", FvStr("bval")>>>>

KindsWritten ==
  { Kind("Event", <<>>, <<>>),
    Kind("Event", MixedFields, <<>>),
    Kind("Event", <<<<"x", FvFloat("NaN")>>>>, <<>>),
    Kind("Event", <<<<"a", FvInt("1")>>, <<"a", FvInt("2")>>>>, <<>>),
    Kind("SpanCreate", <<>>, <<>>),
    Kind("SpanEnter", <<>>, <<>>),
    Kind("SpanExit", <<>>, <<>>),
    Kind("SpanClose", <<>>, <<>>),
    Kind("SpanClose", <<>>, <<[busy |-> "1", idle |-> "20"]>>) }

Egg == <<ItemStart("egg", <<"5">>), ItemField("q", FvBool("false")),
         ItemField("long", FvStr("a very long string for me"))>>
Cat == <<ItemStart("cat", <<>>), ItemField("x", FvFloat("4.01"))>>
Twice == <<ItemStart("egg", <<"5">>), ItemField("a", FvInt("1")), ItemField("a", FvInt("2"))>>

SpansWritten == {Egg, Egg \o Cat, Twice}

LayerEvents ==
  {LayerEvent(k, "Info", <<>>, "hey", NoOptions) : k \in KindsWritten}
  \cup {LayerEvent(Kind("Event", MixedFields, <<>>), "Warn", sp, "http", NoOptions) :
          sp \in SpansWritten}
  \cup {LayerEvent(Kind("SpanClose", <<>>, <<[busy |-> "1", idle |-> "20"]>>),
                   "Error", Egg \o Cat, "bad", AllOptions)}

\* two fields of one name
HasTwice(fields) ==
  \E i, j \in 1..Len(fields) : i # j /\ fields[i][1] = fields[j][1]

\* the spans of the consumer side that the items stand for
OwnedSpans(its) ==
  LET starts == {i \in 1..Len(its) : its[i].item = "Start"}
      nth(n) == CHOOSE i \in starts : Cardinality({k \in starts : k < i}) = n - 1
  IN [n \in 1..Cardinality(starts) |->
       [ name |-> its[nth(n)].name,
         id |-> its[nth(n)].id,
         fields |-> [k \in 1..(FragmentEnd(its, nth(n)) - nth(n)) |->
                       <<its[nth(n) + k].name, its[nth(n) + k].val>>] ]]

\* the event::Event that eq_event_ser_event takes for equal to a subscriber
\* side Event
OwnedOf(e) == [e EXCEPT !.spans = OwnedSpans(e.spans)]

EventHasTwice(e) ==
  \/ HasTwice(e.kind.fields)
  \/ \E i \in 1..Len(OwnedSpans(e.spans)) : HasTwice(OwnedSpans(e.spans)[i].fields)

\* the values of event::Event: an IndexMap holds a name once
OwnedEvents == {OwnedOf(e) : e \in {x \in LayerEvents : ~EventHasTwice(x)}}

\* the "\n" of the Json driver
Newline == [j |-> "ws", v |-> "\n"]

\* SerdeFormat::serialize of the two drivers
FormatSerialize(f, w) == IF f = "Json" THEN <<w, Newline>> ELSE <<w>>

InitFormat ==
  /\ format \in Formats
  /\ side \in {"layer", "owned"}
  /\ events = <<>>
  /\ buffer = <<>>
  /\ rpos = 0
  /\ failed = FALSE
  /\ yielded = <<>>
  /\ now = 0
  /\ timers = <<>>
  /\ log = <<>>
  /\ step = 0
  /\ wkind = "NonBlocking"
  /\ decorators = <<>>
  /\ outcomes = <<>>
  /\ ExtIdle
  /\ WriterIdle
  /\ LayerIdle

\* fmt.serialize(&mut buffer, &e)
Serialize(e) ==
  /\ yielded = <<>>
  /\ Len(events) < MaxStream
  /\ e \in (IF side = "layer" THEN LayerEvents ELSE OwnedEvents)
  /\ events' = Append(events, e)
  /\ buffer' = buffer \o FormatSerialize(format,
                 IF side = "layer" THEN SerializeLayerEvent(format, e)
                 ELSE SerializeOwnedEvent(format, e))
  /\ UNCHANGED <<format, side, rpos, failed, yielded, now, timers, log, step>>
  /\ UNCHANGED <<nbVars, layerVars, emitVars, extVars>>

Yield(ret, val) == [ret |-> ret, val |-> val]

\* the position of the next value of the buffer, white space skipped (0: none)
NextValue ==
  IF \E i \in (rpos + 1)..Len(buffer) : buffer[i].j # "ws"
  THEN CHOOSE i \in (rpos + 1)..Len(buffer) :
         buffer[i].j # "ws" /\ \A k \in (rpos + 1)..(i - 1) : buffer[k].j = "ws"
  ELSE 0

\* what Event::deserialize finds at a value of the input: an event ("ok"),
\* the end of the input inside the record ("eof"), bytes that are no value of
\* the format ("syntax"), or a value that is no Event ("data": a member of the
\* wrong type, a required member missing)
ReadOutcome(item) ==
  CASE item.j = "cut" -> "eof"
    [] item.j = "garbage" -> "syntax"
    [] OTHER -> IF DeEvent(item).ok THEN "ok" ELSE "data"

\* JsonStream::next: serde_json's StreamDeserializer; every error of the
\* deserializer becomes Some(Err), and after an error the stream ends
JsonStreamNext ==
  IF failed \/ NextValue = 0
  THEN /\ yielded' = Append(yielded, Yield("None", <<>>))
       /\ rpos' = IF failed THEN rpos ELSE Len(buffer)
       /\ failed' = failed
  ELSE LET r == ReadOutcome(buffer[NextValue])
       IN /\ yielded' = Append(yielded, IF r = "ok"
                                        THEN Yield("Ok", DeEvent(buffer[NextValue]).val)
                                        ELSE Yield("Err", <<>>))
          /\ rpos' = NextValue
          /\ failed' = (r # "ok")

\* MessagePackStream::next: an UnexpectedEof of the reader, at the first byte
\* of a record or inside it, is None; any error that is not an IO error is
\* unwrapped, which panics
MessagePackStreamNext ==
  /\ failed' = failed
  /\ IF rpos = Len(buffer)
     THEN /\ yielded' = Append(yielded, Yield("None", <<>>))
          /\ rpos' = rpos
     ELSE LET r == ReadOutcome(buffer[rpos + 1])
          IN /\ yielded' = Append(yielded,
                             CASE r = "ok" -> Yield("Ok", DeEvent(buffer[rpos + 1]).val)
                               [] r = "eof" -> Yield("None", <<>>)
                               [] OTHER -> Yield("panic", <<>>))
             /\ rpos' = rpos + 1

\* one call of next on fmt.iter_reader(&buffer): the calls that yield the
\* events and two calls more
StreamCall ==
  /\ Len(yielded) <= Len(events) + 1
  /\ (Len(yielded) > 0 => yielded[Len(yielded)].ret # "panic")
  /\ IF format = "Json" THEN JsonStreamNext ELSE MessagePackStreamNext
  /\ UNCHANGED <<format, side, events, buffer, now, timers, log, step>>
  /\ UNCHANGED <<nbVars, layerVars, emitVars>>

StreamNext == StreamCall /\ UNCHANGED extVars

SerializeStep == \E e \in LayerEvents \cup OwnedEvents : Serialize(e)

NextFormat ==
  \/ SerializeStep
  \/ StreamNext

SpecFormat == InitFormat /\ [][NextFormat]_vars

\* the event::Event that the i-th event of the stream reads back as
Expected(i) == IF side = "layer" THEN OwnedOf(events[i]) ELSE events[i]

\* the i-th event of the stream has two fields of one name
TwiceAt(i) == side = "layer" /\ EventHasTwice(events[i])

\* C13: an event serialized by a format driver and read back by the stream of
\* that driver is one Ok item equal to the event: kind with its fields and
\* their variants, level, target, time, thread, source location and spans.
C13_RoundTripEqual ==
  (Len(events) = 1 /\ Len(yielded) >= 1 /\ ~TwiceAt(1)) =>
     (yielded[1].ret = "Ok" /\ yielded[1].val = Expected(1))

\* C14: the stream of N events yields N Ok items, the i-th from the i-th
\* event, and None on every call after them.
C14_StreamYieldsAllThenNone ==
  (\A k \in 1..Len(events) : ~TwiceAt(k)) =>
    \A i \in 1..Len(yielded) :
      IF i <= Len(events)
      THEN yielded[i].ret = "Ok" /\ yielded[i].val = Expected(i)
      ELSE yielded[i].ret = "None"

\* ---- short and long keys
\* the serde aliases of event::Event and of event::Span: <<short, long>>
EventAliases ==
  {<<"ty", "kind">>, <<"l", "level">>, <<"s", "spans">>, <<"t", "target">>,
   <<"tid", "thread_id">>, <<"tn", "thread_name">>, <<"srl", "src_line">>,
   <<"srf", "src_file">>, <<"tm", "time">>}
SpanAliases == {<<"n", "name">>, <<"i", "id">>, <<"f", "fields">>}

ShortOf(aliases) == {p[1] : p \in aliases}
LongOf(aliases) == {p[2] : p \in aliases}

KeysOf(w) == {w.v[i][1] : i \in 1..Len(w.v)}

LongKey(aliases, k) ==
  IF k \in ShortOf(aliases) THEN (CHOOSE p \in aliases : p[1] = k)[2] ELSE k

Rename(w, aliases) ==
  WMap([i \in 1..Len(w.v) |-> <<LongKey(aliases, w.v[i][1]), w.v[i][2]>>])

\* the record with every short key of the event and of its spans rewritten
\* to the long key, values and order kept
ToLongKeys(w) ==
  LET top == Rename(w, EventAliases)
  IN WMap([i \in 1..Len(top.v) |->
            IF top.v[i][1] = "spans" /\ top.v[i][2].j = "seq"
            THEN <<"spans", WSeq([k \in 1..Len(top.v[i][2].v) |->
                                   Rename(top.v[i][2].v[k], SpanAliases)])>>
            ELSE top.v[i]])

\* every span map of a record has its keys in the given set
SpanKeysIn(w, keys) ==
  \A i \in 1..Len(w.v) :
    (w.v[i][1] \in {"s", "spans"} /\ w.v[i][2].j = "seq") =>
       \A k \in 1..Len(w.v[i][2].v) : KeysOf(w.v[i][2].v[k]) \subseteq keys

\* the positions of the records in the buffer
RecordsWritten == {n \in 1..Len(buffer) : buffer[n].j = "map"}

\* C15 as stated: every serialized Event has the short keys only.
C15_EveryEventEmitsShortKeys ==
  \A n \in RecordsWritten :
    /\ KeysOf(buffer[n]) \subseteq ShortOf(EventAliases)
    /\ SpanKeysIn(buffer[n], ShortOf(SpanAliases))

\* C15: the Event of the subscriber side (the record a layer emits) is
\* serialized with the short keys only, the Event of the consumer side with
\* the long keys only; a record and the same record rewritten with the long
\* keys deserialize to the same result.
C15_ShortEmittedBothAccepted ==
  \A n \in RecordsWritten :
    LET w == buffer[n]
    IN /\ side = "layer" =>
            /\ KeysOf(w) \subseteq ShortOf(EventAliases)
            /\ SpanKeysIn(w, ShortOf(SpanAliases))
            /\ KeysOf(ToLongKeys(w)) \cap ShortOf(EventAliases) = {}
       /\ side = "owned" =>
            /\ KeysOf(w) \subseteq LongOf(EventAliases)
            /\ SpanKeysIn(w, LongOf(SpanAliases))
       /\ KeysOf(ToLongKeys(w)) \subseteq LongOf(EventAliases)
       /\ SpanKeysIn(ToLongKeys(w), LongOf(SpanAliases))
       /\ DeEvent(ToLongKeys(w)) = DeEvent(w)

\* a record of the subscriber side with every optional key and two spans has
\* been read back
C15_Witness ==
  /\ side = "layer"
  /\ Len(events) = 1
  /\ events[1].thread_id # <<>> /\ events[1].time # <<>>
  /\ Len(yielded) = 1
  /\ yielded[1].ret = "Ok"
  /\ Len(yielded[1].val.spans) = 2
  /\ DeEvent(ToLongKeys(buffer[1])) = Ok(yielded[1].val)

\* C16: an event recorded with two fields of one name, in the event or in one
\* of its spans, reads back with both fields, in the order recorded.
C16_TwiceNamedFieldsKept ==
  \A i \in 1..Len(yielded) :
    (i <= Len(events) /\ TwiceAt(i)) =>
       (yielded[i].ret = "Ok" /\ yielded[i].val = Expected(i))

\* ======================================================= writer decorators
\* number of write calls made on a decorated writer
MaxCalls == 4

\* the result of one call of WriteEvent::write: what the call did ("Ok" and
\* "Err" are the io::Result returned, "panic" is a call that unwound), the
\* number of calls of write it made on the undecorated writer and the number
\* of lines it printed to standard error
WriteResult(ret, calls_made, printed) ==
  [ret |-> ret, calls_made |-> calls_made, printed |-> printed]

\* a warn-on-error that hands the error on after printing it
WarnOnErrorPropagating(r) ==
  WriteResult(r.ret, r.calls_made, r.printed + (IF r.ret = "Err" THEN 1 ELSE 0))

\* WarnOnError::write, r the result of self.0.write(fmt, event)
WarnOnErrorWrite(r) ==
  IF r.ret = "panic" THEN r
  ELSE IF r.ret = "Err" THEN WriteResult("Ok", r.calls_made, r.printed + 1)
  ELSE WriteResult("Ok", r.calls_made, r.printed)

\* a panic-on-error that returns the error instead
PanicOnErrorReturning(r) == r

\* PanicOnError::write, r the result of self.0.write(fmt, event)
PanicOnErrorWrite(r) ==
  IF r.ret = "panic" THEN r
  ELSE IF r.ret = "Err" THEN WriteResult("panic", r.calls_made, r.printed)
  ELSE WriteResult("Ok", r.calls_made, r.printed)

\* write on the writer under the decorators decs, base what the undecorated
\* writer does with the call
RECURSIVE DecoratedWrite(_, _)
DecoratedWrite(decs, base) ==
  IF decs = <<>> THEN WriteResult(base, 1, 0)
  ELSE IF Head(decs) = "Warn" THEN WarnOnErrorWrite(DecoratedWrite(Tail(decs), base))
  ELSE PanicOnErrorWrite(DecoratedWrite(Tail(decs), base))

\* writer.warn_on_error(), writer.panic_on_error() and a decorator of a
\* decorated writer
DecoratorStacks ==
  {<<d>> : d \in {"Warn", "Panic"}}
  \cup {<<d1, d2>> : d1 \in {"Warn", "Panic"}, d2 \in {"Warn", "Panic"}}

\* what the undecorated writer does with a call: fmt.serialize returns Ok or
\* an IO error, or the call panics (a poisoned Mutex, NonBlocking without its
\* worker)
BaseOutcomes == {"Ok", "Err", "panic"}

InitDecor ==
  /\ decorators \in DecoratorStacks
  /\ wkind = "Sync"
  /\ outcomes = <<>>
  /\ ExtIdle
  /\ now = 0
  /\ timers = <<>>
  /\ log = <<>>
  /\ step = 0
  /\ format = "Json"
  /\ side = "layer"
  /\ events = <<>>
  /\ buffer = <<>>
  /\ rpos = 0
  /\ failed = FALSE
  /\ yielded = <<>>
  /\ WriterIdle
  /\ LayerIdle

\* one call of write on the decorated writer; a thread that panicked makes no
\* further call
WriteCall(base) ==
  /\ Len(outcomes) < MaxCalls
  /\ (outcomes # <<>> => outcomes[Len(outcomes)].ret # "panic")
  /\ LET inner == DecoratedWrite(Tail(decorators), base)
         r == DecoratedWrite(decorators, base)
     IN outcomes' = Append(outcomes,
                      [base |-> base, ret |-> r.ret, inner |-> inner.ret,
                       inner_calls |-> r.calls_made \div inner.calls_made,
                       printed |-> r.printed - inner.printed])
  /\ UNCHANGED <<wkind, decorators, now, timers, log, step, fmtVars, extVars>>
  /\ UNCHANGED <<nbVars, layerVars>>

WriteCallStep == \E base \in BaseOutcomes : WriteCall(base)

NextDecor == WriteCallStep

SpecDecor == InitDecor /\ [][NextDecor]_vars

EmitPayload(kind) ==
  FormatSerialize(format,
    SerializeLayerEvent(format,
      LayerEvent(Kind(kind, <<>>, <<>>), "Info",
                 IF kind = "Event" THEN <<>> ELSE Egg, "hey", NoOptions)))

\* NonBlocking::write: fmt.serialize(&mut buf, event).expect(..), then the
\* send; ser is what fmt.serialize returned, o what the send did
NonBlockingWrite(ser, o) ==
  IF ser = "Err" \/ o = "panic" THEN "panic" ELSE "Ok"

\* Stdout, Stderr, Mutex<W>: fmt.serialize(writer, event)
SyncWrite(ser) == ser

\* SerdeLayer::emit_event ends with let _ = self.writer.write(&self.fmt, &event):
\* what the callback does after the call of write
EmitReturns(ret) == IF ret = "panic" THEN "panic" ELSE "return"

InitEmit ==
  /\ wkind \in {"NonBlocking", "Sync"}
  /\ decorators \in {<<>>, <<"Warn">>}
  /\ outcomes = <<>>
  /\ ExtIdle
  /\ lossy \in (IF wkind = "Sync" THEN {FALSE} ELSE BOOLEAN)
  /\ cap = 1
  /\ write_size = 0
  /\ interrupts = 0
  /\ wait = FALSE
  /\ pnext = [p \in Producers |-> 1]
  /\ ppc = [p \in Producers |-> "run"]
  /\ tpc = 0
  /\ Spawned
  /\ layers = <<[span_events |-> SpanEventBits, time_spans |-> FALSE]>>
  /\ nspans = 0
  /\ parent = <<>>
  /\ live = {}
  /\ handle = {}
  /\ stack = <<>>
  /\ everEntered = {}
  /\ ext_spans = <<>>
  /\ ext_timer = <<>>
  /\ emitted = <<>>
  /\ ncalls = [k \in Kinds |-> 0]
  /\ now = 0
  /\ timers = <<>>
  /\ log = <<>>
  /\ step = 0
  /\ format = "Json"
  /\ side = "layer"
  /\ events = <<>>
  /\ buffer = <<>>
  /\ rpos = 0
  /\ failed = FALSE
  /\ yielded = <<>>

\* a host thread p runs into a callback of the layer that emits a record of
\* the given kind: emit_event builds the event and calls write on the
\* decorated writer
HostCallback(p, kind, ser) ==
  LET o == SendOutcome(lossy)
      base == IF wkind = "Sync" THEN SyncWrite(ser) ELSE NonBlockingWrite(ser, o)
      r == DecoratedWrite(decorators, base)
      sent == wkind = "NonBlocking" /\ ser = "Ok" /\ o = "sent"
  IN /\ ppc[p] = "run"
     /\ (wkind = "NonBlocking" /\ ser = "Ok") => o # "block"
     /\ emitted' = <<emit_event(1, kind, <<>>, 0, "-")>>
     /\ ncalls' = Called(kind, 1)
     /\ chan' = IF sent THEN Append(chan, Record(EmitPayload(kind))) ELSE chan
     /\ accepted' = IF sent THEN Append(accepted, EmitPayload(kind)) ELSE accepted
     /\ calls' = IF base = "Ok" THEN Append(calls, EmitPayload(kind)) ELSE calls
     /\ outcomes' = Append(outcomes, [base |-> base, ret |-> r.ret,
                                      callback |-> EmitReturns(r.ret)])
     /\ IF EmitReturns(r.ret) = "panic"
        THEN /\ ppc' = [ppc EXCEPT ![p] = "panicked"]
             /\ pnext' = pnext
        ELSE /\ ppc' = [ppc EXCEPT ![p] = IF pnext[p] = WritesOf(p) THEN "done" ELSE "run"]
             /\ pnext' = [pnext EXCEPT ![p] = @ + 1]
     /\ UNCHANGED <<lossy, cap, gpc, sdAccepted, rcvAccepted, wpc, wmode, cur, written,
                    out, write_size, interrupts, write_counter, flushes, wlog, wait,
                    signalled, tpc, firstRecv>>
     /\ UNCHANGED <<layers, nspans, parent, live, handle, stack, everEntered,
                    ext_spans, ext_timer>>
     /\ UNCHANGED <<now, timers, log, step, fmtVars, wkind, decorators, extVars>>

HostStep ==
  \E p \in Producers, kind \in {"Event", "SpanClose"}, ser \in {"Ok", "Err"} :
    HostCallback(p, kind, ser)

\* the NonBlocking writer's guard and worker
NonBlockingStep ==
  /\ wkind = "NonBlocking"
  /\ \/ GuardDrop
     \/ GuardSend
     \/ GuardJoin
     \/ WorkerRecv
     \/ WorkerDrain
     \/ WorkerWrite
     \/ WorkerFlush

NextEmit ==
  \/ HostStep
  \/ NonBlockingStep

SpecEmit == InitEmit /\ [][NextEmit]_vars

\* C17: a layer built without panic_on_error never panics in a callback
\* because emitting the record failed, whatever its writer: every callback
\* returns and the thread goes on to its next callback.
C17_NoCallbackPanics ==
  /\ \A i \in 1..Len(outcomes) : outcomes[i].callback = "return"
  /\ \A p \in Producers : ppc[p] # "panicked"

\* ======================================================= a worker that dies
\* the underlying writer panics in write: the writer thread unwinds and drops
\* the WriterThread with its Receiver. The messages still queued stay in the
\* channel, which the senders keep alive, and are never received.
WorkerPanic ==
  /\ wpc = "write"
  /\ wpc' = "dead"
  /\ cur' = <<>>
  /\ UNCHANGED <<lossy, cap, chan, pnext, ppc, calls, accepted, gpc, sdAccepted,
                 rcvAccepted, wmode, written, out, write_size, interrupts,
                 write_counter, flushes, wlog, wait, signalled, tpc, firstRecv>>
  /\ UNCHANGED <<layerVars, auxVars>>

NextCrash ==
  \/ NextNB
  \/ WorkerPanic

SpecCrash == InitNB /\ [][NextCrash]_vars

\* C18: once the writer thread has died, a write is never blocked, not on a
\* full channel either, and every write that is made panics (the record is
\* neither queued nor counted as written); a FlushGuard dropped after that
\* is not blocked and panics in its send of Shutdown.
C18_DeadWorkerMakesWritesAndDropPanic ==
  /\ [](wpc = "dead" =>
          /\ \A p \in Producers : ppc[p] = "run" => ENABLED ProducerWrite(p)
          /\ gpc = "dropping" => ENABLED GuardSend)
  /\ [][wpc = "dead" =>
          /\ \A p \in Producers :
               (ppc'[p] # ppc[p] \/ pnext'[p] # pnext[p]) => ppc'[p] = "panicked"
          /\ chan' = chan /\ accepted' = accepted /\ calls' = calls
          /\ (gpc = "dropping" /\ gpc' # gpc) => gpc' = "panicked"]_vars

\* the writer thread died with a full channel and no Shutdown in it; then a
\* blocking write and the drop of the guard have panicked
C18_Witness ==
  /\ wpc = "dead"
  /\ ~lossy
  /\ Len(chan) >= cap
  /\ \A i \in 1..Len(chan) : chan[i].type = "Record"
  /\ \E p \in Producers : ppc[p] = "panicked"
  /\ gpc = "panicked"

\* ======================================================= IO errors in the worker
\* WriterThread::handle_io_err: the number of errors printed so far, one per
\* failed call of write
ErrorsReported == IF interrupts = 0 THEN 0 ELSE write_counter \div interrupts

\* the payloads among those handed to writer.write whose call did not fail
WrittenWithoutError ==
  Concat([i \in 1..Len(written) |->
            IF interrupts # 0 /\ i % interrupts = 0 THEN <<>> ELSE written[i]])

\* C19: with an underlying writer that returns an IO error for some records,
\* the writer thread never dies: it hands every record it receives to the
\* writer, in channel order, also after a failed write; a writer that takes
\* whole buffers has received exactly the records whose write did not fail,
\* in order; and the drop of the guard still completes, after one flush.
C19_WorkerSurvivesIoErrors ==
  /\ [](interrupts # 0 =>
          /\ wpc # "dead"
          /\ IsPrefix(written, accepted)
          /\ Len(written) = write_counter
          /\ write_size = 0 => out = WrittenWithoutError
          /\ gpc = "joined" =>
               /\ wpc = "done"
               /\ flushes = 1
               /\ IsPrefix(SubSeq(accepted, 1, rcvAccepted), written))
  /\ (interrupts # 0 /\ gpc = "dropping") ~> (gpc = "joined")

\* the second write failed, a third record was written after it and the drop
\* of the guard has returned
C19_Witness ==
  /\ interrupts = 2
  /\ write_size = 0
  /\ Len(written) = 3
  /\ ErrorsReported = 1
  /\ out = written[1] \o written[3]
  /\ gpc = "joined"

\* ---------------------------------------------------------------------------
\* Optional members of a record: SerdeLayer::emit_event
\* (src/src/subscriber/mod.rs 247-280) under the options of the builder.

\* the clocks a layer is built with: () and SystemClock
Clocks == {"()", "SystemClock"}

\* the options of SerdeLayerBuilder that decide the optional members, and the
\* cargo feature "thread_id" of the build
LayerOptions ==
  [thread_id : BOOLEAN, thread_name : BOOLEAN, source_location : BOOLEAN,
   clock : Clocks, feature_thread_id : BOOLEAN]

\* what one callback finds: the name of the current thread (none for an
\* unnamed thread), the file and line of the callsite metadata, and whether
\* the system time is after the Unix epoch
CallEnvs ==
  [thread_given_name : {<<>>, <<"worker">>}, file : {<<>>, <<"path/to/code.rs">>},
   line : {<<>>, <<"34">>}, after_epoch : BOOLEAN]

\* Clock::time: () has no time, SystemClock has one unless the system time
\* is before the epoch
ClockTime(clock, env) ==
  IF clock = "SystemClock" /\ env.after_epoch
  THEN <<[seconds |-> "0", nanos |-> "0"]>> ELSE <<>>

\* emit_event with the source location recorded whatever the option says
EventOptionsAlwaysLocated(o, env) ==
  [thread_id |-> IF o.feature_thread_id /\ o.thread_id THEN <<"2">> ELSE <<>>,
   thread_name |-> IF o.thread_name
                   THEN (IF env.thread_given_name # <<>> THEN env.thread_given_name
                         ELSE <<"ThreadId(2)">>)
                   ELSE <<>>,
   src_line |-> env.line,
   src_file |-> env.file,
   time |-> ClockTime(o.clock, env)]

\* the optional members emit_event gives a record
EventOptions(o, env) ==
  [thread_id |-> IF o.feature_thread_id /\ o.thread_id THEN <<"2">> ELSE <<>>,
   thread_name |-> IF o.thread_name
                   THEN (IF env.thread_given_name # <<>> THEN env.thread_given_name
                         ELSE <<"ThreadId(2)">>)
                   ELSE <<>>,
   src_line |-> IF o.source_location THEN env.line ELSE <<>>,
   src_file |-> IF o.source_location THEN env.file ELSE <<>>,
   time |-> ClockTime(o.clock, env)]

InitOptions ==
  /\ format \in Formats
  /\ side = "layer"
  /\ layers \in {<<o>> : o \in LayerOptions}
  /\ events = <<>>
  /\ buffer = <<>>
  /\ rpos = 0
  /\ failed = FALSE
  /\ yielded = <<>>
  /\ now = 0
  /\ timers = <<>>
  /\ log = <<>>
  /\ step = 0
  /\ wkind = "Sync"
  /\ decorators = <<>>
  /\ outcomes = <<>>
  /\ ExtIdle
  /\ WriterIdle
  /\ nspans = 0
  /\ parent = <<>>
  /\ live = {}
  /\ handle = {}
  /\ stack = <<>>
  /\ everEntered = {}
  /\ ext_spans = <<>>
  /\ ext_timer = <<>>
  /\ emitted = <<>>
  /\ ncalls = [k \in Kinds |-> 0]

\* one callback of the layer: emit_event builds the record and the format
\* serializes it into the writer
EmitWithOptions(kind, env) ==
  /\ events = <<>>
  /\ LET e == LayerEvent(kind, "Info", <<>>, "t", EventOptions(layers[1], env))
     IN  /\ events' = <<[env |-> env, event |-> e]>>
         /\ buffer' = buffer \o FormatSerialize(format, SerializeLayerEvent(format, e))
  /\ UNCHANGED <<format, side, rpos, failed, yielded, now, timers, log, step>>
  /\ UNCHANGED <<nbVars, layerVars, emitVars, extVars>>

NextOptions == \E kind \in KindsWritten, env \in CallEnvs : EmitWithOptions(kind, env)

SpecOptions == InitOptions /\ [][NextOptions]_vars

\* C21: each of thread_id, thread_name, src_file, src_line and time is a
\* member of an emitted record exactly when its option is on (thread_id,
\* thread_name, source_location, a clock) and the datum is available (the
\* build has thread ids, the callsite has a file or a line, the clock has a
\* time), and is left out otherwise.
C21_OptionalMembersFollowOptions ==
  events # <<>> =>
    LET o == layers[1]
        env == events[1].env
        keys == KeysOf(buffer[1])
    IN  /\ "tid" \in keys <=> (o.thread_id /\ o.feature_thread_id)
        /\ "tn" \in keys <=> o.thread_name
        /\ "srf" \in keys <=> (o.source_location /\ env.file # <<>>)
        /\ "srl" \in keys <=> (o.source_location /\ env.line # <<>>)
        /\ "tm" \in keys <=> (o.clock = "SystemClock" /\ env.after_epoch)
        /\ {"ty", "l", "s", "t"} \subseteq keys

\* a record written with the source location switched off although the
\* callsite has one, and with the name and id of the thread and the time
C21_Witness ==
  /\ events # <<>>
  /\ ~layers[1].source_location
  /\ events[1].env.file # <<>>
  /\ events[1].env.line # <<>>
  /\ KeysOf(buffer[1]) = {"ty", "l", "s", "t", "tid", "tn", "tm"}

\* ---------------------------------------------------------------------------
\* A direct writer shared by threads: WriteEvent for Stdout, Stderr and
\* Mutex<W> (src/src/writer/mod.rs 63-81). write takes the lock and hands the
\* guard to SerdeFormat::serialize, which makes its write calls on it; the
\* guard is dropped when write returns.

SyncThreads == {1, 2}

\* the write calls one serialization makes on the guard: the value in pieces
\* and, for Json, the newline (format/json.rs)
SerializeChunks(f) == <<"head", "tail">> \o (IF f = "Json" THEN <<"newline">> ELSE <<>>)

\* a lock that does not exclude other threads
LockableAlways(holder) == TRUE

\* Stdout::lock, Stderr::lock, Mutex::lock: returns once no other thread
\* holds the lock
Lockable(holder) == holder = 0

InitSync ==
  /\ format \in Formats
  /\ mutex = 0
  /\ progress = [t \in SyncThreads |-> [rec |-> 0, chunk |-> 0, pc |-> "idle"]]
  /\ sink = <<>>
  /\ OpenIdle
  /\ PureIdle
  /\ RingIdle
  /\ side = "layer"
  /\ events = <<>>
  /\ buffer = <<>>
  /\ rpos = 0
  /\ failed = FALSE
  /\ yielded = <<>>
  /\ now = 0
  /\ timers = <<>>
  /\ log = <<>>
  /\ step = 0
  /\ wkind = "Sync"
  /\ decorators = <<>>
  /\ outcomes = <<>>
  /\ WriterIdle
  /\ LayerIdle

SyncFrame ==
  UNCHANGED <<nbVars, layerVars, now, timers, log, step, fmtVars, emitVars, openVars, pureVars,
              ringVars>>

\* write: self.lock()
SyncLock(t) ==
  /\ progress[t].pc = "idle"
  /\ progress[t].rec < NWrites
  /\ Lockable(mutex)
  /\ mutex' = t
  /\ progress' = [progress EXCEPT ![t].pc = "serializing", ![t].chunk = 0]
  /\ UNCHANGED sink
  /\ SyncFrame

\* one write call of fmt.serialize on the guard
SyncSerializeWrite(t) ==
  /\ progress[t].pc = "serializing"
  /\ progress[t].chunk < Len(SerializeChunks(format))
  /\ sink' = Append(sink, <<t, progress[t].rec + 1, progress[t].chunk + 1>>)
  /\ progress' = [progress EXCEPT ![t].chunk = @ + 1]
  /\ UNCHANGED mutex
  /\ SyncFrame

\* fmt.serialize returns, with Ok after the last write call or with an error
\* before it; write returns and the guard is dropped
SyncReturn(t) ==
  /\ progress[t].pc = "serializing"
  /\ mutex' = IF mutex = t THEN 0 ELSE mutex
  /\ progress' = [progress EXCEPT ![t].pc = "idle", ![t].rec = @ + 1]
  /\ UNCHANGED sink
  /\ SyncFrame

NextSync ==
  \E t \in SyncThreads : SyncLock(t) \/ SyncSerializeWrite(t) \/ SyncReturn(t)

SpecSync == InitSync /\ [][NextSync]_vars

\* positions of the sink that hold chunks of record r of thread t
ChunksAt(t, r) == {i \in 1..Len(sink) : sink[i][1] = t /\ sink[i][2] = r}

\* C22: with a direct writer shared by threads, a thread holds the lock for
\* the whole serialization of a record, so the chunks of one record are
\* contiguous in what the writer received (no chunk of another record lies
\* between them), and the records of one thread appear in the order of its
\* callbacks, each with its chunks in order.
C22_RecordsNeverInterleave ==
  /\ \A t \in SyncThreads : progress[t].pc = "serializing" => mutex = t
  /\ \A i, j \in 1..Len(sink) :
       (i < j /\ sink[i][1] = sink[j][1] /\ sink[i][2] = sink[j][2]) =>
         \A k \in i..j : sink[k][1] = sink[i][1] /\ sink[k][2] = sink[i][2]
  /\ \A i, j \in 1..Len(sink) :
       (i < j /\ sink[i][1] = sink[j][1]) =>
         \/ sink[i][2] < sink[j][2]
         \/ sink[i][2] = sink[j][2] /\ sink[i][3] < sink[j][3]
  /\ \A i \in 1..Len(sink) :
       sink[i][3] = Cardinality({k \in 1..i : sink[k][1] = sink[i][1] /\ sink[k][2] = sink[i][2]})

\* both threads have written all their records in full, and a record of
\* thread 2 lies between the two records of thread 1
C22_Witness ==
  /\ \A t \in SyncThreads : progress[t].rec = NWrites /\ progress[t].pc = "idle"
  /\ Len(sink) = 2 * NWrites * Len(SerializeChunks(format))
  /\ \E i, j, k \in 1..Len(sink) :
       /\ i < j /\ j < k
       /\ sink[i] = <<1, 1, 1>>
       /\ sink[j][1] = 2
       /\ sink[k] = <<1, 2, 1>>

\* ---------------------------------------------------------------------------
\* Streams that hold undecodable or truncated records, read by
\* JsonStream::next (src/src/format/json.rs 38-44) and MessagePackStream::next
\* (src/src/format/messagepack.rs 57-77).

\* what a stream is made of: a well-formed record, a record without the
\* required member target, a record whose level is a string, bytes that are
\* no value of the format, and a record the end of the input cuts short
StreamInputs == {"good", "missing_field", "wrong_type", "garbage", "cut"}
Undecodable == {"missing_field", "wrong_type", "garbage"}

GoodRecord(f) ==
  SerializeLayerEvent(f, LayerEvent(Kind("Event", <<>>, <<>>), "Info", <<>>, "t", AllOptions))

WithoutKey(w, k) == WMap(SelectSeq(w.v, LAMBDA p : p[1] # k))

WithEntry(w, k, x) ==
  WMap([i \in 1..Len(w.v) |-> IF w.v[i][1] = k THEN <<k, x>> ELSE w.v[i]])

InputItem(f, input) ==
  CASE input = "good" -> GoodRecord(f)
    [] input = "missing_field" -> WithoutKey(GoodRecord(f), "t")
    [] input = "wrong_type" -> WithEntry(GoodRecord(f), "l", WStr("high"))
    [] input = "garbage" -> [j |-> "garbage", v |-> <<>>]
    [] input = "cut" -> [j |-> "cut", v |-> <<>>]

InitDecode ==
  /\ format \in Formats
  /\ side = "input"
  /\ events = <<>>
  /\ buffer = <<>>
  /\ rpos = 0
  /\ failed = FALSE
  /\ yielded = <<>>
  /\ now = 0
  /\ timers = <<>>
  /\ log = <<>>
  /\ step = 0
  /\ wkind = "NonBlocking"
  /\ decorators = <<>>
  /\ outcomes = <<>>
  /\ ExtIdle
  /\ WriterIdle
  /\ LayerIdle

\* the input grows by one record; nothing follows a record that the end of
\* the input cuts short
Feed(input) ==
  /\ yielded = <<>>
  /\ Len(events) < MaxStream
  /\ (events # <<>> => events[Len(events)] # "cut")
  /\ events' = Append(events, input)
  /\ buffer' = buffer \o (IF input = "cut" THEN <<InputItem(format, input)>>
                          ELSE FormatSerialize(format, InputItem(format, input)))
  /\ UNCHANGED <<format, side, rpos, failed, yielded, now, timers, log, step>>
  /\ UNCHANGED <<nbVars, layerVars, emitVars, extVars>>

NextDecode ==
  \/ \E input \in StreamInputs : Feed(input)
  \/ StreamNext

SpecDecode == InitDecode /\ [][NextDecode]_vars

\* the records before the k-th are well-formed
GoodBefore(k) == \A i \in 1..(k - 1) : i <= Len(events) => events[i] = "good"

\* C23: in a MessagePack stream, the end of the input exactly between records
\* makes the iterator return None, and the end of the input inside a record
\* makes it yield an error rather than end cleanly.
C23_EofBetweenEndsMidRecordErrors ==
  format = "MessagePack" =>
    \A k \in 1..Len(yielded) :
      GoodBefore(k) =>
        /\ (k = Len(events) + 1) => yielded[k].ret = "None"
        /\ (k <= Len(events) /\ events[k] = "cut") => yielded[k].ret = "Err"

\* C24: at an undecodable record (malformed bytes, a member of the wrong
\* type, a required member missing) the iterator of each driver yields Err and
\* does not panic; the MessagePack stream then ends on the next call and the
\* Json stream yields an error again.
C24_UndecodableYieldsErr ==
  \A k \in 1..Len(yielded) :
    (k <= Len(events) /\ events[k] \in Undecodable /\ GoodBefore(k)) =>
       /\ yielded[k].ret = "Err"
       /\ k < Len(yielded) =>
            yielded[k + 1].ret = (IF format = "Json" THEN "Err" ELSE "None")

\* ---------------------------------------------------------------------------
\* IterFile::iter_file and TryOpenStream (src/src/consumer/mod.rs 50-92)

\* the errors File::open can return
OpenErrors == {"NotFound", "PermissionDenied"}

\* an Option that keeps its content when taken
TakenKeeping(err) == err

\* Option::take leaves None behind
Taken(err) == <<>>

InitOpen == InitDecode

\* the content of the file, written before it is read
FeedFile(input) == tryopen.state = "none" /\ Feed(input)

\* iter_file: File::open fails and the stream is OpenError(Some(e)), or it
\* succeeds and the stream is Success(self.iter_reader(BufReader::new(file)))
iter_file(opened) ==
  /\ tryopen.state = "none"
  /\ tryopen' = IF opened = <<>> THEN [state |-> "Success", err |-> <<>>]
                ELSE [state |-> "OpenError", err |-> opened]
  /\ UNCHANGED <<outer, syncVars, pureVars, ringVars, nbVars, layerVars, now, timers, log, step,
                 fmtVars, emitVars>>

\* TryOpenStream::next
TryOpenStreamNext ==
  /\ Len(outer) <= Len(events) + 1
  /\ \/ /\ tryopen.state = "OpenError"
        /\ outer' = Append(outer, IF tryopen.err = <<>> THEN Yield("None", <<>>)
                                  ELSE Yield("Err", tryopen.err[1]))
        /\ tryopen' = [tryopen EXCEPT !.err = Taken(tryopen.err)]
        /\ UNCHANGED <<nbVars, layerVars, now, timers, log, step, fmtVars, emitVars>>
     \/ /\ tryopen.state = "Success"
        /\ StreamCall
        /\ outer' = Append(outer, yielded'[Len(yielded')])
        /\ UNCHANGED tryopen
  /\ UNCHANGED <<syncVars, pureVars, ringVars>>

NextOpen ==
  \/ \E input \in StreamInputs : FeedFile(input)
  \/ \E opened \in {<<>>} \cup {<<e>> : e \in OpenErrors} : iter_file(opened)
  \/ TryOpenStreamNext

SpecOpen == InitOpen /\ [][NextOpen]_vars

\* C25: when iter_file cannot open the file, the iterator yields exactly one
\* item, the open error, and None on every call after it; when the file
\* opens, the iterator yields exactly the items of the reader stream of the
\* format over the file.
C25_OpenErrorOnceElseReaderItems ==
  /\ tryopen.state = "none" => outer = <<>>
  /\ tryopen.state = "OpenError" =>
       /\ yielded = <<>>
       /\ \A i \in 1..Len(outer) :
            IF i = 1 THEN outer[i].ret = "Err" /\ outer[i].val \in OpenErrors
            ELSE outer[i].ret = "None"
       /\ (outer = <<>>) = (tryopen.err # <<>>)
  /\ tryopen.state = "Success" => outer = yielded

\* the open failed and the iterator was called three times
C25_WitnessOpenError ==
  /\ tryopen.state = "OpenError"
  /\ Len(outer) = 3
  /\ outer[1] = Yield("Err", "NotFound")

\* ---------------------------------------------------------------------------
\* Span timing under arbitrary enters and exits: SpanTimer
\* (src/src/time.rs 24-60) driven by on_new_span, on_enter, on_exit and
\* on_close of a layer built with time_spans (src/src/subscriber/mod.rs
\* 304-390).

\* the records of one operation as they reach the writer, with their span
StampedSpan(recs) ==
  [i \in 1..Len(recs) |->
     [ kind |-> recs[i].kind,
       span |-> recs[i].span,
       times |-> IF recs[i].times = "Some"
                 THEN SpanTimerFinish(timers[recs[i].span]) ELSE NoSpanTime,
       at |-> now ]]

\* the spans of a run, and the depths of the span stack at which a span is
\* entered (a span is entered again inside itself or inside the other)
TimedSpans == {1, 2}
EnterDepths == {0, 1}

InitTiming ==
  /\ layers = <<[span_events |-> {"NEW", "CLOSE"}, time_spans |-> TRUE]>>
  /\ nspans = 0
  /\ parent = <<>>
  /\ live = {}
  /\ handle = {}
  /\ stack = <<>>
  /\ everEntered = {}
  /\ ext_spans = <<>>
  /\ ext_timer = <<>>
  /\ emitted = <<>>
  /\ ncalls = [k \in Kinds |-> 0]
  /\ WriterIdle
  /\ AuxIdle

\* span!(...): on_new_span inserts SpanTimer::new() into the extensions
TimingNewSpan ==
  /\ nspans + 1 \in TimedSpans
  /\ LET id == nspans + 1
         done == NotifyNewSpan(Len(layers), id)
     IN /\ nspans' = id
        /\ parent' = Append(parent, CurrentOf(stack))
        /\ live' = live \cup {id}
        /\ handle' = handle \cup {id}
        /\ ext_spans' = done.es
        /\ ext_timer' = done.et
        /\ timers' = Append(timers, SpanTimerNew)
        /\ emitted' = done.recs
        /\ ncalls' = Called("SpanCreate", 1)
        /\ log' = log \o StampedSpan(done.recs)
  /\ UNCHANGED <<layers, stack, everEntered, now, step>>
  /\ UNCHANGED <<nbVars, fmtVars, emitVars, extVars>>

\* span.enter(): on_enter calls start_busy
TimingEnter(id) ==
  /\ id \in handle
  /\ Len(stack) \in EnterDepths
  /\ stack' = Push(stack, id)
  /\ everEntered' = everEntered \cup {id}
  /\ emitted' = AllLayers([l \in LayerIds |-> on_enter(l, id, stack')])
  /\ ncalls' = Called("SpanEnter", 1)
  /\ timers' = IF (Layer(1).record_span_enter \/ Layer(1).time_spans) /\ ext_timer[id]
               THEN [timers EXCEPT ![id] = start_busy(@)] ELSE timers
  /\ log' = log \o StampedSpan(emitted')
  /\ UNCHANGED <<layers, nspans, parent, live, handle, ext_spans, ext_timer, now, step>>
  /\ UNCHANGED <<nbVars, fmtVars, emitVars, extVars>>

\* the guard of an enter is dropped: on_exit calls end_busy
TimingExit(id) ==
  /\ id \in OnStack(stack)
  /\ stack' = Pop(stack, id)
  /\ emitted' = AllLayers([l \in LayerIds |-> on_exit(l, id, stack')])
  /\ ncalls' = Called("SpanExit", 1)
  /\ timers' = IF (Layer(1).record_span_exit \/ Layer(1).time_spans) /\ ext_timer[id]
               THEN [timers EXCEPT ![id] = end_busy(@)] ELSE timers
  /\ log' = log \o StampedSpan(emitted')
  /\ UNCHANGED <<layers, nspans, parent, live, handle, everEntered, ext_spans,
                 ext_timer, now, step>>
  /\ UNCHANGED <<nbVars, fmtVars, emitVars, extVars>>

\* the handle of a span is dropped: the span closes once it has no children,
\* and with it every parent that only it kept open; on_close reads the timer
TimingDrop(id) ==
  /\ id \in handle
  /\ id \notin OnStack(stack)
  /\ handle' = handle \ {id}
  /\ LET closing == IF Children(id, live) = {} THEN Closing(id, live) ELSE <<>>
         recs == Concat([i \in 1..Len(closing) |->
                           AllLayers([l \in LayerIds |-> on_close(l, closing[i])])])
     IN /\ live' = live \ {closing[i] : i \in 1..Len(closing)}
        /\ emitted' = recs
        /\ ncalls' = Called("SpanClose", Len(closing))
        /\ log' = log \o StampedSpan(recs)
  /\ UNCHANGED <<layers, nspans, parent, stack, everEntered, ext_spans, ext_timer,
                 now, timers, step>>
  /\ UNCHANGED <<nbVars, fmtVars, emitVars, extVars>>

NextTiming ==
  \/ Tick
  \/ TimingNewSpan
  \/ \E id \in TimedSpans : TimingEnter(id) \/ TimingExit(id) \/ TimingDrop(id)

SpecTiming == InitTiming /\ [][NextTiming]_vars

\* the instant span s was created: that of its SpanCreate record
CreatedAt(s) ==
  (CHOOSE r \in {log[i] : i \in 1..Len(log)} : r.kind = "SpanCreate" /\ r.span = s).at

Closes == {i \in 1..Len(log) : log[i].kind = "SpanClose"}

\* C26: with time_spans on, whatever enters and exits a span saw, the
\* SpanTime of its SpanClose record has busy + idle at most the monotonic
\* time between the creation of the span and its close.
C26_BusyPlusIdleWithinLifetime ==
  \A i \in Closes :
    /\ log[i].times.some
    /\ log[i].times.busy >= 0
    /\ log[i].times.idle >= 0
    /\ log[i].times.busy + log[i].times.idle <= log[i].at - CreatedAt(log[i].span)

\* a span entered twice, with the clock advancing before, between and inside
\* the enters, has closed with busy and idle time
C26_Witness ==
  \E i \in Closes :
    /\ log[i].times.busy > 0
    /\ log[i].times.idle > 0
    /\ log[i].times.busy + log[i].times.idle < log[i].at - CreatedAt(log[i].span)

\* C27: with time_spans on, a span that is created and closed without ever
\* being entered has a SpanClose with busy = 0 and its whole lifetime as idle
\* time.
C27_NeverEnteredLifetimeIsIdle ==
  \A i \in Closes :
    log[i].span \notin everEntered =>
      /\ log[i].times.some
      /\ log[i].times.busy = 0
      /\ log[i].times.idle = log[i].at - CreatedAt(log[i].span)

\* ---------------------------------------------------------------------------
\* Equality and hashing of event::FieldValue (src/src/event.rs 50-101)

\* the values compared: both booleans, integers and strings that look like
\* one another, and floats among them both zeros and two NaNs
FieldValuePool ==
  << FvBool(TRUE), FvBool(FALSE), FvInt("0"), FvInt("1"), FvStr("1"), FvStr("NaN"),
     FvFloat("0.0"), FvFloat("-0.0"), FvFloat("1.0"), FvFloat("NaN"),
     FvFloat("NaN(payload 1)") >>

NaNs == {"NaN", "NaN(payload 1)"}

\* f64_bitpattern: the 64 bits of the float
f64_bitpattern(x) ==
  CASE x = "0.0" -> "0000000000000000"
    [] x = "-0.0" -> "8000000000000000"
    [] x = "1.0" -> "3FF0000000000000"
    [] x = "NaN" -> "7FF8000000000000"
    [] x = "NaN(payload 1)" -> "7FF8000000000001"

\* == of f64: a NaN equals nothing, the two zeros are equal
IeeeEq(x, y) ==
  /\ x \notin NaNs
  /\ y \notin NaNs
  /\ (x = y \/ {x, y} = {"0.0", "-0.0"})

\* an equality that compares floats with ==
FieldValueEqIeee(a, b) ==
  /\ a.ty = b.ty
  /\ IF a.ty = "Float" THEN IeeeEq(a.v, b.v) ELSE a.v = b.v

\* PartialEq for FieldValue
FieldValueEq(a, b) ==
  /\ a.ty = b.ty
  /\ IF a.ty = "Float" THEN f64_bitpattern(a.v) = f64_bitpattern(b.v) ELSE a.v = b.v

\* Hash for FieldValue: what is fed to the hasher
FieldValueHash(a) ==
  CASE a.ty = "Bool" -> <<"bool", a.v>>
    [] a.ty = "Int" -> <<"i64", a.v>>
    [] a.ty = "Str" -> <<"str", a.v>>
    [] a.ty = "Float" -> <<"u64", f64_bitpattern(a.v)>>

PoolIds == 1..Len(FieldValuePool)

InitFieldValue ==
  /\ args \in PoolIds \X PoolIds \X PoolIds
  /\ result = <<>>
  /\ SyncIdle
  /\ OpenIdle
  /\ RingIdle
  /\ CoreIdle
  /\ WriterIdle
  /\ LayerIdle

\* a == b, b == a, b == c, a == c, a == a and the hashes of a and b
Compare ==
  /\ result = <<>>
  /\ LET a == FieldValuePool[args[1]]
         b == FieldValuePool[args[2]]
         c == FieldValuePool[args[3]]
     IN result' = [ab |-> FieldValueEq(a, b), ba |-> FieldValueEq(b, a),
                   bc |-> FieldValueEq(b, c), ac |-> FieldValueEq(a, c),
                   aa |-> FieldValueEq(a, a),
                   ha |-> FieldValueHash(a), hb |-> FieldValueHash(b)]
  /\ UNCHANGED <<args, syncVars, openVars, ringVars, nbVars, layerVars, now, timers, log, step,
                 fmtVars, emitVars>>

SpecFieldValue == InitFieldValue /\ [][Compare]_vars

\* C28: equality of FieldValue is reflexive, symmetric and transitive; two
\* Floats are equal exactly when their 64 bits are the same (a NaN equals
\* itself, +0.0 differs from -0.0); values of different variants are never
\* equal (Int(1) differs from Float(1.0)); equal values hash the same.
C28_FieldValueEqIsEquivalence ==
  result # <<>> =>
    LET a == FieldValuePool[args[1]]
        b == FieldValuePool[args[2]]
    IN /\ result.aa
       /\ result.ab = result.ba
       /\ (result.ab /\ result.bc) => result.ac
       /\ (a.ty = "Float" /\ b.ty = "Float") => (result.ab <=> (args[1] = args[2]))
       /\ (a.ty = "Float" /\ a.v \in NaNs /\ args[2] = args[1]) => result.ab
       /\ (a.ty = "Float" /\ b.ty = "Float" /\ a.v = "0.0" /\ b.v = "-0.0") => ~result.ab
       /\ a.ty # b.ty => ~result.ab
       /\ (a.ty = "Int" /\ b.ty = "Float" /\ a.v = "1" /\ b.v = "1.0") => ~result.ab
       /\ result.ab => result.ha = result.hb

\* a NaN was compared with itself and with the other NaN
C28_Witness ==
  /\ result # <<>>
  /\ FieldValuePool[args[1]].ty = "Float"
  /\ FieldValuePool[args[1]].v = "NaN"
  /\ args[2] = args[1]
  /\ FieldValuePool[args[3]].ty = "Float"
  /\ FieldValuePool[args[3]].v = "NaN(payload 1)"
  /\ result.ab
  /\ ~result.bc

\* ---------------------------------------------------------------------------
\* FieldVisitor::record_u64 (src/src/subscriber/mod.rs 49-55): the u64 is
\* cast to i64. A 64-bit word is four 16-bit limbs, the most significant
\* first; an i64 is its sign and the limbs of its magnitude.

LimbValues == {0, 1, 32767, 32768, 65535}

U64s == LimbValues \X LimbValues \X LimbValues \X LimbValues

\* the limbs of the i64 of largest value
I64Max == <<32767, 65535, 65535, 65535>>

\* the two's complement of a word: every bit inverted, plus one
Negate(u) ==
  LET inv == [i \in 1..4 |-> 65535 - u[i]]
      carry(i) == IF \A k \in (i + 1)..4 : inv[k] = 65535 THEN 1 ELSE 0
  IN [i \in 1..4 |-> (inv[i] + carry(i)) % 65536]

\* a cast that clamps to i64::MAX
AsI64Saturating(u) ==
  IF u[1] < 32768 THEN [neg |-> FALSE, mag |-> u] ELSE [neg |-> FALSE, mag |-> I64Max]

\* value as i64: the same 64 bits read as two's complement
AsI64(u) ==
  IF u[1] < 32768 THEN [neg |-> FALSE, mag |-> u] ELSE [neg |-> TRUE, mag |-> Negate(u)]

\* record_u64: self.0.add_field(field.name(), FieldValue::Int(value as i64))
record_u64(fields, name, value) == Append(fields, <<name, FvInt(AsI64(value))>>)

InitVisit ==
  /\ args \in U64s
  /\ result = <<>>
  /\ SyncIdle
  /\ OpenIdle
  /\ RingIdle
  /\ CoreIdle
  /\ WriterIdle
  /\ LayerIdle

\* the host records the field x = args on a visitor without fields
RecordU64 ==
  /\ result = <<>>
  /\ result' = record_u64(<<>>, "x", args)
  /\ UNCHANGED <<args, syncVars, openVars, ringVars, nbVars, layerVars, now, timers, log, step,
                 fmtVars, emitVars>>

SpecVisit == InitVisit /\ [][RecordU64]_vars

\* the limbs of 2^64 - v, for 0 < v < 2^64, by subtraction with borrow
From2p64(v) ==
  LET borrow(i) == IF \E k \in (i + 1)..4 : v[k] # 0 THEN 1 ELSE 0
  IN [i \in 1..4 |-> (65536 - v[i] - borrow(i)) % 65536]

\* C29: record_u64(v) stores Int(v) for v < 2^63 and Int(v - 2^64) for
\* v >= 2^63; the call always returns, and what it stores is one Int field,
\* neither clamped nor a string.
C29_RecordU64Wraps ==
  /\ result = <<>> => ENABLED RecordU64
  /\ result # <<>> =>
       /\ Len(result) = 1
       /\ result[1][1] = "x"
       /\ result[1][2].ty = "Int"
       /\ args[1] < 32768 => result[1][2].v = [neg |-> FALSE, mag |-> args]
       /\ args[1] >= 32768 => result[1][2].v = [neg |-> TRUE, mag |-> From2p64(args)]

\* u64::MAX was recorded and stored as Int(-1)
C29_Witness ==
  /\ args = <<65535, 65535, 65535, 65535>>
  /\ result = <<<<"x", FvInt([neg |-> TRUE, mag |-> <<0, 0, 0, 1>>])>>>>

\* ---------------------------------------------------------------------------
\* The ring-buffer writer of src/src/nonblocking.rs: WriterHandle (55-132),
\* WriterThreadHandle (158-186), WriterThread (188-263) and the TestWriter of
\* its tests (273-300).

\* buf_size, and the payload sizes of the write calls: none, less than, equal
\* to and more than the capacity of the ring
BufSizes == {1, 2, 3}
PayloadSizes == {0, 1, 2, 4}

\* TestWriter: write_size (0: None) and interrupts (0: None; every n-th call
\* of write returns Interrupted)
RingWriteSizes == {0, 1}
RingInterrupts == {0, 2}

\* Producer::slots: the free slots of the ring
FreeSlots(rb) == rb.cap - rb.len

\* write_slice_exact on a chunk of Len(bytes) free slots: the chunk is the
\* slice up to the physical end of the ring (left) and the slice from its
\* start (right); commit_all makes the bytes readable
PutSlices(rb, bytes) ==
  LET n == Len(bytes)
      tail == (rb.head - 1 + rb.len) % rb.cap
      nleft == Min(n, rb.cap - tail)
  IN [rb EXCEPT
        !.slots = [i \in 1..rb.cap |->
                     IF tail < i /\ i <= tail + nleft THEN bytes[i - tail]
                     ELSE IF i <= n - nleft THEN bytes[nleft + i]
                     ELSE rb.slots[i]],
        !.len = rb.len + n]

\* read_chunk(n).as_slices(): the readable bytes up to the physical end of
\* the ring, and those from its start
LeftSlice(rb, n) ==
  [k \in 1..Min(n, rb.cap - rb.head + 1) |-> rb.slots[rb.head + k - 1]]
RightSlice(rb, n) ==
  [k \in 1..(n - Min(n, rb.cap - rb.head + 1)) |-> rb.slots[k]]

\* ReadChunk::commit_all: n slots are free again (a ring without slots has
\* nothing to commit)
CommitRead(rb, n) ==
  IF rb.cap = 0 THEN rb
  ELSE [rb EXCEPT !.head = ((rb.head - 1 + n) % rb.cap) + 1, !.len = rb.len - n]

\* TestWriter::write, one call: Interrupted on every interrupts-th call, else
\* the first write_size bytes are taken
TestWriterWrite(w, bytes) ==
  LET c == w.write_counter + 1
      n == Min(IF w.write_size = 0 THEN Len(bytes) ELSE w.write_size, Len(bytes))
  IN IF w.interrupts # 0 /\ c % w.interrupts = 0
     THEN [w |-> [w EXCEPT !.write_counter = c], ret |-> "Interrupted", n |-> 0]
     ELSE [w |-> [w EXCEPT !.write_counter = c,
                           !.buffer = w.buffer \o SubSeq(bytes, 1, n)],
           ret |-> "Ok", n |-> n]

\* a single call of write in place of write_all
WriteOnce(w, bytes) ==
  IF bytes = <<>> THEN w ELSE TestWriterWrite(w, bytes).w

\* Write::write_all: write is called until the slice is empty; Interrupted
\* is retried, a short write continues with the rest
RECURSIVE WriteAll(_, _)
WriteAll(w, bytes) ==
  IF bytes = <<>> THEN w
  ELSE LET r == TestWriterWrite(w, bytes)
       IN WriteAll(r.w, SubSeq(bytes, r.n + 1, Len(bytes)))

\* flush_buffer up to the commit: everything readable is written, the left
\* slice and then the right one
FlushWrites(w, rb) ==
  WriteAll(WriteAll(w, LeftSlice(rb, rb.len)), RightSlice(rb, rb.len))

\* Builder::finish: the ring, the spawned thread, the handle
InitRing ==
  /\ \E size \in BufSizes :
       /\ ringbuf = [cap |-> size, slots |-> [i \in 1..size |-> 0], head |-> 1, len |-> 0]
       /\ \E m \in 0..size :
            wt = [pc |-> "recv", msg |-> "-", taken |-> 0, min_write_size |-> m]
  /\ wh = [pc |-> "idle", buf |-> <<>>, avail |-> 0, done |-> 0, next |-> 1]
  /\ chans = [data_available |-> <<>>, alive |-> TRUE]
  /\ \E ws \in RingWriteSizes, ints \in RingInterrupts :
       tw = [buffer |-> <<>>, write_size |-> ws, interrupts |-> ints, write_counter |-> 0]
  /\ SyncIdle
  /\ OpenIdle
  /\ PureIdle
  /\ CoreIdle
  /\ WriterIdle
  /\ LayerIdle

RingFrame ==
  UNCHANGED <<syncVars, openVars, pureVars, nbVars, layerVars, now, timers, log, step,
              fmtVars, emitVars>>

\* WriterThreadHandle::notify
Notified(c) == [c EXCEPT !.data_available = Append(@, "WakeUp")]

\* WriterHandle::write, up to the loop: the payload goes into the ring whole,
\* or the loop starts with the free slots as avail. An empty payload fails
\* the debug_assert of write_slice_exact in a build with debug assertions.
HandleWrite(n, debug) ==
  /\ wh.pc = "idle"
  /\ wh.done < NWrites
  /\ LET payload == [k \in 1..n |-> wh.next + k - 1]
     IN IF n = 0 /\ debug
        THEN /\ wh' = [wh EXCEPT !.pc = "unwinding"]
             /\ UNCHANGED <<ringbuf, chans>>
        ELSE IF n <= FreeSlots(ringbuf)
        THEN /\ ringbuf' = PutSlices(ringbuf, payload)
             /\ chans' = Notified(chans)
             /\ wh' = [wh EXCEPT !.done = @ + 1, !.next = @ + n]
        ELSE /\ wh' = [wh EXCEPT !.pc = "loop", !.buf = payload,
                                 !.avail = FreeSlots(ringbuf), !.next = @ + n]
             /\ UNCHANGED <<ringbuf, chans>>
  /\ UNCHANGED <<wt, tw>>
  /\ RingFrame

\* one turn of the loop of write: wait_for_space sends MakeSpace when avail
\* is 0, else the next avail bytes go into the ring
HandleLoop ==
  /\ wh.pc = "loop"
  /\ IF wh.avail = 0
     THEN /\ chans' = [chans EXCEPT !.data_available = Append(@, "MakeSpace")]
          /\ wh' = [wh EXCEPT !.pc = "wait"]
          /\ UNCHANGED ringbuf
     ELSE LET k == Min(wh.avail, Len(wh.buf))
              rest == SubSeq(wh.buf, k + 1, Len(wh.buf))
          IN IF k > FreeSlots(ringbuf)
             THEN /\ wh' = [wh EXCEPT !.pc = "unwrap failed"]
                  /\ UNCHANGED <<ringbuf, chans>>
             ELSE /\ ringbuf' = PutSlices(ringbuf, SubSeq(wh.buf, 1, k))
                  /\ chans' = Notified(chans)
                  /\ wh' = [wh EXCEPT !.buf = rest,
                                      !.avail = FreeSlots(ringbuf'),
                                      !.pc = IF rest = <<>> THEN "idle" ELSE "loop",
                                      !.done = IF rest = <<>> THEN @ + 1 ELSE @]
  /\ UNCHANGED <<wt, tw>>
  /\ RingFrame

\* space_available is a rendezvous channel: the send of the thread and the
\* recv of wait_for_space complete together; avail = ringbuf.slots()
SpaceHandoff ==
  /\ wh.pc = "wait"
  /\ wt.pc = "space"
  /\ wh' = [wh EXCEPT !.avail = FreeSlots(ringbuf),
                      !.pc = IF FreeSlots(ringbuf) = 0 THEN "debug_assert" ELSE "loop"]
  /\ wt' = [wt EXCEPT !.pc = "recv"]
  /\ UNCHANGED <<ringbuf, chans, tw>>
  /\ RingFrame

\* drop(handle), also while a panic of write unwinds: shutdown drops both
\* ends of the channels it holds
HandleDrop ==
  /\ wh.pc \in {"idle", "unwinding"}
  /\ wh' = [wh EXCEPT !.pc = "dropped"]
  /\ chans' = [chans EXCEPT !.alive = FALSE]
  /\ UNCHANGED <<ringbuf, wt, tw>>
  /\ RingFrame

\* thread_handle.join().unwrap()
HandleJoin ==
  /\ wh.pc = "dropped"
  /\ wt.pc = "done"
  /\ wh' = [wh EXCEPT !.pc = "joined"]
  /\ UNCHANGED <<ringbuf, wt, chans, tw>>
  /\ RingFrame

\* where run goes after the flush of an iteration: a MakeSpace is answered
\* on space_available
AfterFlush(msg, rb) ==
  IF msg = "MakeSpace"
  THEN (IF rb.len = rb.cap THEN "debug_assert" ELSE "space")
  ELSE "recv"

\* run: data_available.recv() returns a message
ThreadRecv ==
  /\ wt.pc = "recv"
  /\ chans.data_available # <<>>
  /\ wt' = [wt EXCEPT !.pc = "got", !.msg = Head(chans.data_available)]
  /\ chans' = [chans EXCEPT !.data_available = Tail(@)]
  /\ UNCHANGED <<ringbuf, wh, tw>>
  /\ RingFrame

\* run: with min_write_size bytes readable, flush_buffer writes them
ThreadCheck ==
  /\ wt.pc = "got"
  /\ IF wt.min_write_size <= ringbuf.len
     THEN /\ tw' = FlushWrites(tw, ringbuf)
          /\ wt' = [wt EXCEPT !.pc = "commit", !.taken = ringbuf.len]
     ELSE /\ wt' = [wt EXCEPT !.pc = AfterFlush(wt.msg, ringbuf)]
          /\ UNCHANGED tw
  /\ UNCHANGED <<ringbuf, wh, chans>>
  /\ RingFrame

\* flush_buffer: chunks.commit_all()
ThreadCommit ==
  /\ wt.pc = "commit"
  /\ ringbuf' = CommitRead(ringbuf, wt.taken)
  /\ wt' = [wt EXCEPT !.pc = AfterFlush(wt.msg, ringbuf'), !.taken = 0]
  /\ UNCHANGED <<wh, chans, tw>>
  /\ RingFrame

\* run: the senders are gone and the queue is empty; the last flush_buffer
\* and writer.flush()
ThreadFinal ==
  /\ wt.pc = "recv"
  /\ chans.data_available = <<>>
  /\ ~chans.alive
  /\ tw' = FlushWrites(tw, ringbuf)
  /\ ringbuf' = CommitRead(ringbuf, ringbuf.len)
  /\ wt' = [wt EXCEPT !.pc = "done"]
  /\ UNCHANGED <<wh, chans>>
  /\ RingFrame

NextRing ==
  \/ \E n \in PayloadSizes, debug \in BOOLEAN : HandleWrite(n, debug)
  \/ HandleLoop
  \/ SpaceHandoff
  \/ HandleDrop
  \/ HandleJoin
  \/ ThreadRecv
  \/ ThreadCheck
  \/ ThreadCommit
  \/ ThreadFinal

SpecRing == InitRing /\ [][NextRing]_vars

\* the payloads written so far, concatenated: the bytes are numbered in the
\* order of the write calls
AllPayloads == [k \in 1..(wh.next - 1) |-> k]

\* some thread can take a step: the guards of the actions of NextRing
RingCanStep ==
  \/ wh.pc \in {"idle", "loop", "unwinding"}
  \/ wt.pc \in {"got", "commit"}
  \/ wt.pc = "recv" /\ (chans.data_available # <<>> \/ ~chans.alive)
  \/ wt.pc = "space" /\ wh.pc = "wait"
  \/ wt.pc = "done" /\ wh.pc = "dropped"

\* C30: for every buf_size >= min_write_size, every sequence of write calls
\* (payloads larger than the free space and than the ring, writes that wrap
\* around) and a writer with short writes or interrupts, once the drop of the
\* handle has returned the writer has received exactly the payloads, in
\* order, nothing lost or repeated; no assertion or unwrap of the writer
\* fails, and the write calls and the drop do not block for ever.
C30_RingDeliversAllInOrder ==
  /\ wh.pc \notin {"debug_assert", "unwrap failed"}
  /\ wt.pc # "debug_assert"
  /\ wh.pc = "joined" => tw.buffer = AllPayloads
  /\ wh.pc # "joined" => RingCanStep
  /\ \A k \in 1..Len(tw.buffer) : tw.buffer[k] = k

\* a payload larger than the ring was written through a ring that wrapped
\* around, to a writer with short writes and interrupts, and the drop has
\* returned
C30_Witness ==
  /\ wh.pc = "joined"
  /\ wh.done = NWrites
  /\ ringbuf.cap = 3
  /\ ringbuf.head = 3
  /\ Len(tw.buffer) = 5
  /\ tw.write_size = 1
  /\ tw.interrupts = 2

\* ---------------------------------------------------------------------------
\* impl Serialize for Spans, SerializeSpan and SerializeSpanFields
\* (src/src/subscriber/serialize.rs 149-216), by the calls they make on the
\* serde Serializer: the length each serialize_seq / serialize_map declares
\* and the elements and entries that follow it. unreachable!() panics, and
\* nothing is emitted after it.

\* the SpanItems the stacks are made of: a span without id, a span with id 1,
\* two fields
SpanItemPool ==
  { ItemStart("a", <<>>), ItemStart("b", <<"1">>),
    ItemField("x", FvInt("1")), ItemField("y", FvInt("2")) }

\* the longest stack serialized
MaxItems == 4

\* the stacks the layer hands to the serializer: empty, or a Start followed by
\* any items
SpanStacks ==
  {<<>>} \cup { s \in UNION {[1..n -> SpanItemPool] : n \in 1..MaxItems} :
                  s[1].item = "Start" }

\* the items before the first one that is not a Field
RECURSIVE FieldsPrefix(_)
FieldsPrefix(items) ==
  IF items = <<>> \/ items[1].item # "Field" THEN <<>>
  ELSE <<<<items[1].name, items[1].val>>>> \o FieldsPrefix(Tail(items))

\* SerializeSpanFields::serialize: serialize_map(Some(self.0.len())), one
\* entry per Field, unreachable!() at a Start
SerializeSpanFieldsMap(items) ==
  [ panic |-> \E k \in 1..Len(items) : items[k].item # "Field",
    declared |-> Len(items),
    entries |-> FieldsPrefix(items) ]

\* SerializeSpan::serialize: serialize_map(Some(3)), then "n", "i" if the id
\* is Some, and "f"; unreachable!() when the first item is a Field
SerializeSpanMap(items) ==
  LET name == items[1]
      fields == SerializeSpanFieldsMap(Tail(items))
  IN [ panic |-> name.item # "Start" \/ fields.panic,
       declared |-> 3,
       keys |-> IF name.item # "Start" THEN <<>>
                ELSE <<"n">> \o (IF name.id = <<>> THEN <<>> ELSE <<"i">>) \o <<"f">>,
       n |-> name.name,
       i |-> name.id,
       f |-> fields ]

\* a scan that leaves out the span that is open when the items end
RECURSIVE ScanSpansWithoutLast(_, _, _)
ScanSpansWithoutLast(items, start, next_start) ==
  IF next_start > Len(items) THEN <<>>
  ELSE IF items[next_start].item = "Start"
  THEN <<SerializeSpanMap(SubSeq(items, start, next_start - 1))>>
       \o ScanSpansWithoutLast(items, next_start, next_start + 1)
  ELSE ScanSpansWithoutLast(items, start, next_start + 1)

\* the loop of Spans::serialize over items.iter().enumerate().skip(1), and
\* the element after it; positions count from 1
RECURSIVE ScanSpans(_, _, _)
ScanSpans(items, start, next_start) ==
  IF next_start > Len(items)
  THEN <<SerializeSpanMap(SubSeq(items, start, Len(items)))>>
  ELSE IF items[next_start].item = "Start"
  THEN <<SerializeSpanMap(SubSeq(items, start, next_start - 1))>>
       \o ScanSpans(items, next_start, next_start + 1)
  ELSE ScanSpans(items, start, next_start + 1)

\* the elements up to the first one that panics
RECURSIVE UpToPanic(_)
UpToPanic(elements) ==
  IF elements = <<>> THEN <<>>
  ELSE IF elements[1].panic THEN <<elements[1]>>
  ELSE <<elements[1]>> \o UpToPanic(Tail(elements))

\* Spans::serialize: serialize_seq(Some(number of Start items)), then the
\* elements
SpansSerialize(items) ==
  LET elements == IF items = <<>> THEN <<>> ELSE UpToPanic(ScanSpans(items, 1, 2))
  IN [ panic |-> \E k \in 1..Len(elements) : elements[k].panic,
       declared |-> Cardinality({k \in 1..Len(items) : items[k].item = "Start"}),
       elements |-> elements ]

InitSpans ==
  /\ args \in SpanStacks
  /\ result = <<>>
  /\ SyncIdle
  /\ OpenIdle
  /\ RingIdle
  /\ CoreIdle
  /\ WriterIdle
  /\ LayerIdle

\* the format serializes the stack of a record
SerializeSpansCall ==
  /\ result = <<>>
  /\ result' = SpansSerialize(args)
  /\ UNCHANGED <<args, syncVars, openVars, ringVars, nbVars, layerVars, now, timers, log, step,
                 fmtVars, emitVars>>

SpecSpans == InitSpans /\ [][SerializeSpansCall]_vars

\* the positions of the Start items of a stack, and the n-th of them
StartsOf(items) == {k \in 1..Len(items) : items[k].item = "Start"}
NthStart(items, n) ==
  CHOOSE k \in StartsOf(items) : Cardinality({m \in StartsOf(items) : m < k}) = n - 1

\* the last position of the span whose Start is at position s
SpanEnd(items, s) ==
  IF \E k \in StartsOf(items) : k > s
  THEN (CHOOSE k \in StartsOf(items) : k > s /\ \A m \in StartsOf(items) : m > s => k <= m) - 1
  ELSE Len(items)

\* C31: the serialized span stack declares as many elements as there are
\* Start items and emits one element per Start, in order; the element has the
\* name and the id of its Start, and its field map holds the Field items that
\* follow the Start up to the next Start or the end, in order, and no others.
C31_OneElementPerStart ==
  result # <<>> =>
    /\ ~result.panic
    /\ result.declared = Cardinality(StartsOf(args))
    /\ Len(result.elements) = Cardinality(StartsOf(args))
    /\ \A n \in 1..Len(result.elements) :
         LET s == NthStart(args, n)
             e == SpanEnd(args, s)
             el == result.elements[n]
         IN /\ el.n = args[s].name
            /\ el.i = args[s].id
            /\ Len(el.f.entries) = e - s
            /\ el.f.declared = e - s
            /\ \A k \in 1..(e - s) :
                 /\ args[s + k].item = "Field"
                 /\ el.f.entries[k] = <<args[s + k].name, args[s + k].val>>

\* a stack of two spans was serialized, the first with one field and the
\* second with one
C31_Witness ==
  /\ args = <<ItemStart("a", <<>>), ItemField("y", FvInt("2")), ItemStart("b", <<"1">>),
              ItemField("x", FvInt("1"))>>
  /\ result # <<>>
  /\ Len(result.elements) = 2
  /\ result.elements[2].f.entries = <<<<"x", FvInt("1")>>>>

\* C37: every map of a serialized span declares the number of entries that
\* are emitted for it: three with an id (n, i, f), two without (n, f).
C37_DeclaredMapLengthIsEmitted ==
  result # <<>> =>
    \A n \in 1..Len(result.elements) :
      /\ result.elements[n].declared = Len(result.elements[n].keys)
      /\ result.elements[n].f.declared = Len(result.elements[n].f.entries)

\* ---------------------------------------------------------------------------
\* The fragment of a span over its life (src/src/subscriber/mod.rs 304-390):
\* the layers of SpecLayer, with the runs of the attribute visitor counted per
\* span in result.

\* span!(...), counting the runs of attrs.record(&mut visitor) on the layers
FragmentNewSpan(par) ==
  /\ NewSpanCall(par)
  /\ result' = Append(result, NotifyNewSpan(Len(layers), nspans + 1).visits)
  /\ UNCHANGED <<nbVars, args, syncVars, openVars, ringVars, now, timers, log, step,
                 fmtVars, emitVars>>

FragmentNewSpanStep == \E par \in -1..MaxSpans : FragmentNewSpan(par)

NextFragment ==
  \/ FragmentNewSpanStep
  \/ EnterStep
  \/ ExitStep
  \/ Event
  \/ DropStep

SpecFragment == InitLayer /\ [][NextFragment]_vars

\* C32: for every span the attribute visitor ran once, whatever the number of
\* layers; the fragment in the span's extensions is the one built then, after
\* every later callback; and every record renders each of its spans as that
\* fragment.
C32_FragmentBuiltOnceNeverChanged ==
  /\ Len(result) = nspans
  /\ \A id \in 1..nspans :
       /\ result[id] = 1
       /\ ext_spans[id] = NewFragment(id)
  /\ \A r \in 1..Len(emitted) :
       \A s \in StartsOf(emitted[r].spans) :
         LET id == emitted[r].spans[s].span
         IN SubSeq(emitted[r].spans, s, SpanEnd(emitted[r].spans, s)) = ext_spans[id]

\* two stacked layers; span 2, which has a field, was created, entered and
\* exited, and its handle is dropped: the close record of the outer layer
\* renders it as it was built
C32_Witness ==
  /\ Len(layers) = 2
  /\ nspans = 2
  /\ 2 \notin live
  /\ 2 \in everEntered
  /\ result = <<1, 1>>
  /\ \E r \in 1..Len(emitted) :
       /\ emitted[r].kind = "SpanClose"
       /\ emitted[r].layer = 2
       /\ emitted[r].span = 2

\* ---------------------------------------------------------------------------
\* The SpanTimer of one span under any sequence of enters and exits
\* (src/src/time.rs 41-60, src/src/subscriber/mod.rs 351-380): one layer that
\* records every span event and times spans, so that the log holds the
\* instant of each on_enter and on_exit. The registry calls on_enter for
\* every enter, also when the span is already on the stack.

\* the numbers of enters after which the span may be entered once more
EntersBefore == {0, 1, 2}

InitBusy ==
  /\ layers = <<[span_events |-> SpanEventBits, time_spans |-> TRUE]>>
  /\ nspans = 0
  /\ parent = <<>>
  /\ live = {}
  /\ handle = {}
  /\ stack = <<>>
  /\ everEntered = {}
  /\ ext_spans = <<>>
  /\ ext_timer = <<>>
  /\ emitted = <<>>
  /\ ncalls = [k \in Kinds |-> 0]
  /\ WriterIdle
  /\ AuxIdle

\* the records of a kind about span 1 in the log
LoggedOf(kind) == SelectSeq(log, LAMBDA r : r.kind = kind /\ r.span = 1)

BusyNewSpan == nspans = 0 /\ TimingNewSpan

BusyEnter == Len(LoggedOf("SpanEnter")) \in EntersBefore /\ TimingEnter(1)

BusyExit == TimingExit(1)

BusyDrop == TimingDrop(1)

NextBusy ==
  \/ Tick
  \/ BusyNewSpan
  \/ BusyEnter
  \/ BusyExit
  \/ BusyDrop

SpecBusy == InitBusy /\ [][NextBusy]_vars

\* the time between each on_enter and its matching on_exit, summed; an exit
\* matches the last enter that is not matched yet; open holds the instants of
\* the unmatched enters
RECURSIVE PairedTime(_, _)
PairedTime(evs, open) ==
  IF evs = <<>> THEN 0
  ELSE IF evs[1].kind = "SpanEnter" THEN PairedTime(Tail(evs), Append(open, evs[1].at))
  ELSE (evs[1].at - open[Len(open)])
       + PairedTime(Tail(evs), SubSeq(open, 1, Len(open) - 1))

EntersAndExits == SelectSeq(log, LAMBDA r : r.kind \in {"SpanEnter", "SpanExit"} /\ r.span = 1)

\* C33: once every on_enter of the span is matched by an on_exit, the timer's
\* busy is the total time between each on_enter and its matching on_exit, and
\* idle is the rest of the time from the creation of the span to the last
\* update, also when the span was entered again while entered.
C33_BusyIsTimeBetweenEnterAndExit ==
  (nspans = 1 /\ 1 \notin OnStack(stack)) =>
    /\ timers[1].busy = PairedTime(EntersAndExits, <<>>)
    /\ timers[1].idle = (timers[1].last_update - CreatedAt(1)) - timers[1].busy

\* no on_enter of the span arrived while the span was entered
EntersDoNotNest ==
  \A k \in 1..(Len(EntersAndExits) - 1) :
    ~(EntersAndExits[k].kind = "SpanEnter" /\ EntersAndExits[k + 1].kind = "SpanEnter")

\* what one step does to the timer of the span: an enter changes idle and
\* last_update only, an exit busy and last_update only, a close nothing
TimerFrame ==
  (nspans = 1 /\ nspans' = 1) =>
    /\ Len(LoggedOf("SpanEnter"))' > Len(LoggedOf("SpanEnter")) =>
         /\ timers'[1].busy = timers[1].busy
         /\ timers'[1].idle = timers[1].idle + (now - timers[1].last_update)
         /\ timers'[1].last_update = now
    /\ Len(LoggedOf("SpanExit"))' > Len(LoggedOf("SpanExit")) =>
         /\ timers'[1].idle = timers[1].idle
         /\ timers'[1].busy = timers[1].busy + (now - timers[1].last_update)
         /\ timers'[1].last_update = now
    /\ Len(LoggedOf("SpanClose"))' > Len(LoggedOf("SpanClose")) =>
         /\ timers' = timers
         /\ log'[Len(log')].times.busy = timers[1].busy
         /\ log'[Len(log')].times.idle = timers[1].idle

\* C33, for enters that do not nest: once every on_enter of the span is
\* matched by an on_exit and the span was never entered while it was entered,
\* busy is the total time between each on_enter and its on_exit and idle is
\* the rest of the time from the creation of the span to the last update;
\* start_busy changes only idle and last_update, end_busy only busy and
\* last_update, and finish changes nothing.
C33_BusyWhenEntersDoNotNest ==
  /\ [](C33_BusyIsTimeBetweenEnterAndExit \/ ~EntersDoNotNest)
  /\ [][TimerFrame]_vars

\* the span was entered and exited twice, one time after the other, with the
\* clock advancing inside and between the enters
C33_Witness ==
  /\ nspans = 1
  /\ 1 \notin OnStack(stack)
  /\ Len(EntersAndExits) = 4
  /\ EntersDoNotNest
  /\ timers[1].busy = 2
  /\ timers[1].idle = 1

\* ---------------------------------------------------------------------------
\* Clones of the NonBlocking writer racing with the drop of the FlushGuard
\* (src/src/writer/nonblocking.rs 87-112, 143-175), on SpecNB.

\* C34: in blocking mode every write call that returned Ok has its record
\* handed to the underlying writer by the time the writer thread has
\* finished, also when the write races with the drop of the FlushGuard: no
\* record enters the channel after the last try_recv of drain() and is lost.
C34_OkWritesReachTheWriter ==
  (~lossy /\ wpc = "done") =>
    \A i \in 1..Len(calls) : \E k \in 1..Len(written) : written[k] = calls[i]

\* the Shutdown messages in the channel
ShutdownsQueued == Len(SelectSeq(chan, LAMBDA m : m.type = "Shutdown"))

\* C35: at most one Shutdown message is ever sent (the ones queued and the
\* one received are at most one together); the writer thread leaves its
\* blocking receive loop when it receives it, and from then on no Shutdown is
\* in the queue, so that handle_message is never called with Shutdown and
\* the thread never dies at its unreachable!().
C35_OneShutdownNeverHandled ==
  /\ ShutdownsQueued + (IF rcvAccepted >= 0 THEN 1 ELSE 0) <= 1
  /\ ShutdownsQueued + (IF rcvAccepted >= 0 THEN 1 ELSE 0)
       = (IF gpc \in {"sent", "joined"} THEN 1 ELSE 0)
  /\ rcvAccepted >= 0 <=> wmode = "drain"
  /\ wmode = "drain" => ShutdownsQueued = 0
  /\ wpc # "dead"
  /\ gpc # "panicked"

\* the writer thread received Shutdown with a record queued behind it, took
\* that record in drain() and wrote it, and is about to call try_recv again
\* while a producer is still writing
C35_Witness ==
  /\ wmode = "drain"
  /\ wpc = "recv"
  /\ Len(written) >= rcvAccepted
  /\ rcvAccepted > sdAccepted
  /\ Len(written) = Len(accepted)
  /\ \E p \in Producers : ppc[p] = "run"

\* ---------------------------------------------------------------------------
\* base64_id (src/src/consumer/pprint.rs 6-39), from the mixed id on: the
\* mixer of lines 12-15 is a bijection of the 64-bit words (xor with a right
\* shift, multiplication by an odd constant), so the mixed id is any word
\* but zero. Bytes are u8, the operators those of Rust on u8.

RECURSIVE BitAnd(_, _)
BitAnd(a, b) ==
  IF a = 0 \/ b = 0 THEN 0
  ELSE (a % 2) * (b % 2) + 2 * BitAnd(a \div 2, b \div 2)

RECURSIVE BitOr(_, _)
BitOr(a, b) ==
  IF a = 0 THEN b
  ELSE IF b = 0 THEN a
  ELSE (IF a % 2 = 1 \/ b % 2 = 1 THEN 1 ELSE 0) + 2 * BitOr(a \div 2, b \div 2)

RECURSIVE Shr(_, _)
Shr(a, n) == IF n = 0 THEN a ELSE Shr(a \div 2, n - 1)

\* a << n on u8 drops the bits above the eighth
RECURSIVE Shl(_, _)
Shl(a, n) == IF n = 0 THEN a ELSE Shl((a * 2) % 256, n - 1)

ALPHABET ==
  << "A", "B", "C", "D", "E", "F", "G", "H", "I", "J", "K", "L", "M", "N", "O", "P",
     "Q", "R", "S", "T", "U", "V", "W", "X", "Y", "Z", "a", "b", "c", "d", "e", "f",
     "g", "h", "i", "j", "k", "l", "m", "n", "o", "p", "q", "r", "s", "t", "u", "v",
     "w", "x", "y", "z", "0", "1", "2", "3", "4", "5", "6", "7", "8", "9", "+", "/" >>

\* the chunk of the loop body for the bytes b0, b1, b2; `>>` binds tighter
\* than `&`, so the last operand of the third element is
\* bytes[start + 2] & (0b1100_0000 >> 6)
Chunk(b0, b1, b2) ==
  << Shr(BitAnd(b0, 252), 2),
     BitOr(Shl(BitAnd(b0, 3), 4), Shr(BitAnd(b1, 240), 4)),
     BitOr(Shl(BitAnd(b1, 15), 2), BitAnd(b2, Shr(192, 6))),
     BitAnd(b2, 63) >>

\* lines 17-38: the nine bytes (the eight of the mixed id, big-endian, and a
\* zero), a chunk for each of the starts 0, 3, 6, every element looked up in
\* ALPHABET (which counts from 0)
base64_idOfMixed(mixed) ==
  LET bytes == mixed \o <<0>>
      chunks == Chunk(bytes[1], bytes[2], bytes[3])
                \o Chunk(bytes[4], bytes[5], bytes[6])
                \o Chunk(bytes[7], bytes[8], bytes[9])
  IN [k \in 1..12 |-> ALPHABET[chunks[k] + 1]]

\* the bytes tried, and the five low bytes of the mixed ids tried
ByteValues == {0, 1, 127, 128, 255}
LowBytes == { <<0, 0, 0, 0, 0>>, <<255, 128, 1, 127, 254>> }

\* the mixed ids: eight bytes, the most significant first, not all zero
MixedIds ==
  { <<b0, b1, b2>> \o low : b0 \in ByteValues, b1 \in ByteValues, b2 \in ByteValues,
                            low \in LowBytes } \ { <<0, 0, 0, 0, 0, 0, 0, 0>> }

InitBase64 ==
  /\ args \in MixedIds \X MixedIds
  /\ result = <<>>
  /\ SyncIdle
  /\ OpenIdle
  /\ RingIdle
  /\ CoreIdle
  /\ WriterIdle
  /\ LayerIdle

\* the pretty printer renders the ids of two spans
Base64Ids ==
  /\ result = <<>>
  /\ result' = <<base64_idOfMixed(args[1]), base64_idOfMixed(args[2])>>
  /\ UNCHANGED <<args, syncVars, openVars, ringVars, nbVars, layerVars, now, timers, log, step,
                 fmtVars, emitVars>>

SpecBase64 == InitBase64 /\ [][Base64Ids]_vars

\* standard base64 of three bytes: the four 6-bit groups of their 24 bits
StandardGroup(b0, b1, b2) ==
  LET n == b0 * 65536 + b1 * 256 + b2
  IN << ALPHABET[(n \div 262144) + 1], ALPHABET[((n \div 4096) % 64) + 1],
        ALPHABET[((n \div 64) % 64) + 1], ALPHABET[(n % 64) + 1] >>

StandardBase64(mixed) ==
  StandardGroup(mixed[1], mixed[2], mixed[3]) \o StandardGroup(mixed[4], mixed[5], mixed[6])
  \o StandardGroup(mixed[7], mixed[8], 0)

\* C38: the span-id string is the standard base64 encoding of the eight
\* big-endian bytes of the mixed id followed by a zero byte, twelve
\* characters, and two different mixed ids give two different strings.
C38_IdStringIsStandardBase64 ==
  result # <<>> =>
    /\ Len(result[1]) = 12
    /\ result[1] = StandardBase64(args[1])
    /\ args[1] # args[2] => result[1] # result[2]

\* ---------------------------------------------------------------------------
\* The span stacks of the layer as the serializer meets them
\* (src/src/subscriber/serialize.rs 114-136, 149-190), on SpecLayer.

\* the SpanItem an item of the layer stands for; the names are those of the
\* spans in the order of their creation
SpanNames == <<"a", "b", "c", "d">>
SpanItemOf(it) ==
  IF it.item = "Start" THEN ItemStart(SpanNames[it.span], <<>>)
  ELSE ItemField("x", FvInt("0"))
SpanItemsOf(items) == [k \in 1..Len(items) |-> SpanItemOf(items[k])]

\* C36: the fragment on_new_span stores for a span begins with a Start item,
\* and the span list of every record (from Spans::current, with or without an
\* append_child after it) is empty or begins with a Start item; serializing
\* it reaches neither unreachable!(): no Field stands where a span begins and
\* no Start among the fields of a span.
C36_StacksBeginWithStart ==
  /\ \A id \in 1..nspans : ext_spans[id] # <<>> /\ ext_spans[id][1].item = "Start"
  /\ \A r \in 1..Len(emitted) :
       /\ emitted[r].spans = <<>> \/ emitted[r].spans[1].item = "Start"
       /\ LET ser == SpansSerialize(SpanItemsOf(emitted[r].spans))
          IN /\ ~ser.panic
             /\ \A el \in 1..Len(ser.elements) : ser.elements[el].keys[1] = "n"

\* the exit of a span with a field inside a parent: the record's list is
\* Spans::current (the parent) with the fragment of the span appended
C36_Witness ==
  \E r \in 1..Len(emitted) :
    /\ emitted[r].kind = "SpanExit"
    /\ emitted[r].span = 2
    /\ emitted[r].spans = <<Start(1), Start(2), Field(2)>>

\* ---------------------------------------------------------------------------
\* The ring-buffer writer for every size Builder::finish accepts
\* (src/src/nonblocking.rs 43-49): assert!(buf_size >= min_write_size) lets
\* buf_size = 0 pass with min_write_size = 0, and rtrb builds a ring without
\* slots, whose producer never has a free slot.
AcceptedBufSizes == {0, 1, 2}

InitRingAccepted ==
  /\ \E size \in AcceptedBufSizes :
       /\ ringbuf = [cap |-> size, slots |-> [i \in 1..size |-> 0], head |-> 1, len |-> 0]
       /\ \E m \in 0..size :
            wt = [pc |-> "recv", msg |-> "-", taken |-> 0, min_write_size |-> m]
  /\ wh = [pc |-> "idle", buf |-> <<>>, avail |-> 0, done |-> 0, next |-> 1]
  /\ chans = [data_available |-> <<>>, alive |-> TRUE]
  /\ \E ws \in RingWriteSizes, ints \in RingInterrupts :
       tw = [buffer |-> <<>>, write_size |-> ws, interrupts |-> ints, write_counter |-> 0]
  /\ SyncIdle
  /\ OpenIdle
  /\ PureIdle
  /\ CoreIdle
  /\ WriterIdle
  /\ LayerIdle

SpecRingAccepted == InitRingAccepted /\ [][NextRing]_vars

\* C39: when the writer thread has handled a MakeSpace message up to its
\* conditional flush, fewer slots are readable than the ring has (the
\* assertion before the send on space_available holds), and the producer it
\* wakes finds a free slot; for every buf_size >= min_write_size.
C39_NotFullAfterMakeSpace ==
  /\ wt.pc = "space" => ringbuf.len < ringbuf.cap
  /\ wt.pc # "debug_assert"
  /\ wh.pc # "debug_assert"

====
